---------------------------- MODULE Spec2Model ----------------------------
(***************************************************************************)
(* A model of the citeable library: the seven citation entry classes       *)
(* (src/citeable/_entries.py), the single-record BibTeX parser             *)
(* (src/citeable/_parser.py) and the JSON helpers (src/citeable/_json.py). *)
(*                                                                         *)
(* Python values are tagged records [t, v]:                                *)
(*   None            [t |-> "none", v |-> <<>>]                            *)
(*   an int n        [t |-> "int",  v |-> n]                               *)
(*   a str           [t |-> "str",  v |-> <<characters>>]                  *)
(*   a list of str   [t |-> "list", v |-> [id |-> object identity,         *)
(*                                         items |-> <<strings>>]]         *)
(* A str is a sequence of one-character strings, positions are Python's    *)
(* (0-based), a dict is the sequence of its items in insertion order, and  *)
(* a call returns [ok |-> TRUE, val |-> ...] or the exception it raises,   *)
(* [ok |-> FALSE, kind, exc, info].                                        *)
(***************************************************************************)
EXTENDS Integers, Sequences, FiniteSets, TLC

VARIABLES
    entries,    \* the entries the caller holds, in creation order
    last        \* the last call of the library: [op, arg, ret]

vars == <<entries, last>>

-----------------------------------------------------------------------------
(* Text *)

Chars(s) == [i \in 1..Len(s) |-> SubSeq(s, i, i)]

At(s, p) == s[p + 1]

PySlice(s, a, b) == IF b <= a THEN <<>> ELSE SubSeq(s, a + 1, b)

Range(seq) == {seq[i] : i \in DOMAIN seq}

Letters == Chars("abcdefghijklmnopqrstuvwxyz")
Capitals == Chars("ABCDEFGHIJKLMNOPQRSTUVWXYZ")
Digits == Chars("0123456789")

\* \w of the re module
IsWord(c) == c \in Range(Letters) \cup Range(Capitals) \cup Range(Digits) \cup {"_"}

\* \s of the re module, and the characters str.strip() removes
IsSpace(c) == c \in {" ", "\t", "\n", "\r", "\f"}

LowerChar(c) ==
    IF c \in Range(Capitals)
    THEN LET i == CHOOSE j \in 1..26 : Capitals[j] = c IN Letters[i]
    ELSE c

\* str.lower()
Lower(s) == [i \in 1..Len(s) |-> LowerChar(s[i])]

\* position of the first character at or after p that is not white space
RECURSIVE SkipSpace(_, _)
SkipSpace(s, p) ==
    IF p < Len(s) /\ IsSpace(At(s, p)) THEN SkipSpace(s, p + 1) ELSE p

\* position of the first character at or after p that is not a word character
RECURSIVE SkipWord(_, _)
SkipWord(s, p) ==
    IF p < Len(s) /\ IsWord(At(s, p)) THEN SkipWord(s, p + 1) ELSE p

\* the end of s once trailing white space is dropped
RECURSIVE TrimEnd(_, _)
TrimEnd(s, e) ==
    IF e > 0 /\ IsSpace(At(s, e - 1)) THEN TrimEnd(s, e - 1) ELSE e

\* str.strip()
Strip(s) ==
    LET a == SkipSpace(s, 0)
        b == TrimEnd(s, Len(s))
    IN PySlice(s, a, b)

RECURSIVE TrimCommas(_, _)
TrimCommas(s, e) ==
    IF e > 0 /\ At(s, e - 1) = "," THEN TrimCommas(s, e - 1) ELSE e

\* str.rstrip(",")
RStripComma(s) == PySlice(s, 0, TrimCommas(s, Len(s)))

StartsAt(s, sub, p) ==
    /\ p + Len(sub) <= Len(s)
    /\ \A i \in 1..Len(sub) : s[p + i] = sub[i]

\* str.find(sub, p): the first position at or after p where sub occurs, or -1
RECURSIVE Find(_, _, _)
Find(s, sub, p) ==
    IF p + Len(sub) > Len(s) THEN -1
    ELSE IF StartsAt(s, sub, p) THEN p
    ELSE Find(s, sub, p + 1)

\* sub in s
Contains(s, sub) == \E p \in 0..Len(s) : StartsAt(s, sub, p)

\* str.split(sep), from position p on
RECURSIVE SplitFrom(_, _, _)
SplitFrom(s, sep, p) ==
    LET q == Find(s, sep, p)
    IN IF q = -1 THEN <<PySlice(s, p, Len(s))>>
       ELSE <<PySlice(s, p, q)>> \o SplitFrom(s, sep, q + Len(sep))

Split(s, sep) == SplitFrom(s, sep, 0)

\* position of the first white space character at or after p
RECURSIVE SkipToken(_, _)
SkipToken(s, p) ==
    IF p < Len(s) /\ ~IsSpace(At(s, p)) THEN SkipToken(s, p + 1) ELSE p

\* str.split(): the maximal runs of characters that are not white space
RECURSIVE SplitWsFrom(_, _)
SplitWsFrom(s, p) ==
    LET a == SkipSpace(s, p)
        b == SkipToken(s, a)
    IN IF a >= Len(s) THEN <<>>
       ELSE <<PySlice(s, a, b)>> \o SplitWsFrom(s, b)

SplitWs(s) == SplitWsFrom(s, 0)

\* sep.join(parts)
RECURSIVE Join(_, _)
Join(parts, sep) ==
    IF Len(parts) = 0 THEN <<>>
    ELSE IF Len(parts) = 1 THEN parts[1]
    ELSE parts[1] \o sep \o Join(Tail(parts), sep)

DigitChar(d) == Digits[d + 1]

DigitValue(c) == (CHOOSE j \in 1..10 : Digits[j] = c) - 1

RECURSIVE NatToStr(_)
NatToStr(n) ==
    IF n < 10 THEN <<DigitChar(n)>>
    ELSE NatToStr(n \div 10) \o <<DigitChar(n % 10)>>

\* str(n) of an int
IntToStr(n) == IF n < 0 THEN <<"-">> \o NatToStr(-n) ELSE NatToStr(n)

RECURSIVE DigitsValue(_, _)
DigitsValue(s, acc) ==
    IF Len(s) = 0 THEN acc
    ELSE IF s[1] = "_" THEN DigitsValue(Tail(s), acc)
    ELSE DigitsValue(Tail(s), 10 * acc + DigitValue(s[1]))

\* the digit strings int() accepts: digits, single underscores between them
IsDigits(s) ==
    /\ Len(s) > 0
    /\ \A i \in 1..Len(s) : s[i] \in Range(Digits) \cup {"_"}
    /\ s[1] # "_" /\ s[Len(s)] # "_"
    /\ \A i \in 1..(Len(s) - 1) : ~(s[i] = "_" /\ s[i + 1] = "_")


\* int(s): white space around, an optional sign, digits
IntOf(s) ==
    LET Value(u, d) ==
            IF IsDigits(d)
            THEN [ok |-> TRUE,
                  val |-> IF u[1] = "-" THEN 0 - DigitsValue(d, 0) ELSE DigitsValue(d, 0)]
            ELSE [ok |-> FALSE, kind |-> "NumericFieldParseError",
                  exc |-> "ValueError", info |-> s]
        Signed(u) ==
            Value(u, IF Len(u) > 0 /\ u[1] \in {"+", "-"} THEN Tail(u) ELSE u)
    IN Signed(Strip(s))

-----------------------------------------------------------------------------
(* Values, results and dicts *)

PyNone == [t |-> "none", v |-> <<>>]
PyInt(n) == [t |-> "int", v |-> n]
PyStr(s) == [t |-> "str", v |-> s]
PyList(id, items) == [t |-> "list", v |-> [id |-> id, items |-> items]]
PyTuple(items) == [t |-> "tuple", v |-> items]

IsNone(x) == x.t = "none"

Ok(v) == [ok |-> TRUE, val |-> v]
Err(kind, exc, info) == [ok |-> FALSE, kind |-> kind, exc |-> exc, info |-> info]

\* the identity of the list made for the field `name` by a call, given the
\* first identity not yet in use
ListId(name, free) == IF name = "editor" THEN free + 1 ELSE free

Item(k, v) == [k |-> k, v |-> v]

DictKeys(d) == {d[i].k : i \in DOMAIN d}
DictHas(d, k) == \E i \in DOMAIN d : d[i].k = k
DictGet(d, k) == d[CHOOSE i \in DOMAIN d : d[i].k = k].v

\* d[k] = v: a key already present keeps its place
DictSet(d, k, v) ==
    IF DictHas(d, k)
    THEN [i \in DOMAIN d |-> IF d[i].k = k THEN Item(k, v) ELSE d[i]]
    ELSE Append(d, Item(k, v))

RECURSIVE DictDel(_, _)
DictDel(d, k) ==
    IF Len(d) = 0 THEN <<>>
    ELSE IF d[1].k = k THEN Tail(d)
    ELSE <<d[1]>> \o DictDel(Tail(d), k)

\* d.update(other)
RECURSIVE DictUpdate(_, _)
DictUpdate(d, other) ==
    IF Len(other) = 0 THEN d
    ELSE DictUpdate(DictSet(d, other[1].k, other[1].v), Tail(other))

-----------------------------------------------------------------------------
(* citeable._validate and citeable._keys: imported by _entries.py *)

\* a required field must be given and not empty
require_field(value, name, cls) ==
    IF IsNone(value) \/ (value.t = "str" /\ Len(value.v) = 0)
    THEN Err("InvalidEntry", "ValueError", Chars(name))
    ELSE Ok(TRUE)

require_non_empty_authors(author, cls) ==
    IF author.t # "list" \/ Len(author.v.items) = 0
    THEN Err("InvalidEntry", "ValueError", Chars("author"))
    ELSE Ok(TRUE)

\* the text before the first comma, else the last token, else the name
extract_surname(name) ==
    LET Last(parts) == IF Len(parts) = 0 THEN name ELSE parts[Len(parts)]
        Before(c) == IF c # -1 THEN Strip(PySlice(name, 0, c)) ELSE Last(SplitWs(name))
    IN Before(Find(name, <<",">>, 0))

generate_key(author, year) ==
    extract_surname(author.v.items[1]) \o <<".">> \o IntToStr(year.v)


-----------------------------------------------------------------------------
(* The entry classes.  An entry is [cls, attrs], attrs being vars(entry): *)
(* the attributes in the order __init__ assigns them.                     *)

Classes ==
    <<"Article", "Book", "InProceedings", "TechReport", "Thesis", "Software",
      "Misc">>

CommonRequired == <<"author", "title", "year">>
CommonOptional == <<"doi", "url", "note", "key", "app">>

\* the parameters without a default of each __init__
Required(cls) ==
    CommonRequired \o
    CASE cls = "Article" -> <<"journal", "volume">>
      [] cls = "Book" -> <<"publisher">>
      [] cls = "InProceedings" -> <<"booktitle">>
      [] cls = "TechReport" -> <<"institution">>
      [] cls = "Thesis" -> <<"school", "thesis_type">>
      [] OTHER -> <<>>

\* the keyword-only parameters, all defaulting to None
Optional(cls) ==
    (CASE cls = "Article" -> <<"pages", "article_number", "number">>
       [] cls = "Book" -> <<"edition", "editor">>
       [] cls = "InProceedings" -> <<"pages", "publisher", "editor">>
       [] cls = "TechReport" -> <<"number">>
       [] cls = "Software" -> <<"publisher", "version", "license">>
       [] OTHER -> <<>>)
    \o CommonOptional

\* the call cls(**kw): Python binds the keywords to the parameters
Bind(cls, kw) ==
    LET Bound(params, extra, missing) ==
            IF extra # {}
            THEN Err("TypeError", "TypeError", Chars(CHOOSE k \in extra : TRUE))
            ELSE IF missing # {}
            THEN Err("TypeError", "TypeError", Chars(CHOOSE k \in missing : TRUE))
            ELSE Ok([k \in params |-> IF DictHas(kw, k) THEN DictGet(kw, k) ELSE PyNone])
        Params(params, required) ==
            Bound(params, DictKeys(kw) \ params, required \ DictKeys(kw))
    IN Params(Range(Required(cls)) \cup Range(Optional(cls)), Range(Required(cls)))

_init_base(cls, a) ==
    LET c == require_non_empty_authors(a["author"], cls)
    IN IF ~c.ok THEN c
       ELSE Ok(<<Item("author", a["author"]),
                 Item("title", a["title"]),
                 Item("year", a["year"]),
                 Item("doi", a["doi"]),
                 Item("url", a["url"]),
                 Item("note", a["note"]),
                 Item("key", IF ~IsNone(a["key"]) THEN a["key"]
                             ELSE PyStr(generate_key(a["author"], a["year"]))),
                 Item("app", a["app"])>>)

\* base attributes, then the attributes named, in that order
Assign(cls, a, base, names) ==
    IF ~base.ok THEN base
    ELSE Ok([cls |-> cls,
             attrs |-> base.val \o [i \in DOMAIN names |-> Item(names[i], a[names[i]])]])

\* Article.__init__ without the check of pages and article_number
ArticleInit_unchecked(a) ==
    LET c1 == require_field(a["journal"], "journal", "Article")
        c2 == require_field(a["volume"], "volume", "Article")
    IN IF ~c1.ok THEN c1
       ELSE IF ~c2.ok THEN c2
       ELSE Assign("Article", a, _init_base("Article", a),
                   <<"journal", "volume", "pages", "article_number", "number">>)

ArticleInit(a) ==
    LET c1 == require_field(a["journal"], "journal", "Article")
        c2 == require_field(a["volume"], "volume", "Article")
    IN IF ~c1.ok THEN c1
       ELSE IF ~c2.ok THEN c2
       ELSE IF IsNone(a["pages"]) /\ IsNone(a["article_number"])
       THEN Err("InvalidEntry", "ValueError", Chars("pages"))
       ELSE Assign("Article", a, _init_base("Article", a),
                   <<"journal", "volume", "pages", "article_number", "number">>)

BookInit(a) ==
    LET c1 == require_field(a["publisher"], "publisher", "Book")
    IN IF ~c1.ok THEN c1
       ELSE Assign("Book", a, _init_base("Book", a),
                   <<"publisher", "edition", "editor">>)

InProceedingsInit(a) ==
    LET c1 == require_field(a["booktitle"], "booktitle", "InProceedings")
    IN IF ~c1.ok THEN c1
       ELSE Assign("InProceedings", a, _init_base("InProceedings", a),
                   <<"booktitle", "pages", "publisher", "editor">>)

TechReportInit(a) ==
    LET c1 == require_field(a["institution"], "institution", "TechReport")
    IN IF ~c1.ok THEN c1
       ELSE Assign("TechReport", a, _init_base("TechReport", a),
                   <<"institution", "number">>)

ThesisInit(a) ==
    LET c1 == require_field(a["school"], "school", "Thesis")
        c2 == require_field(a["thesis_type"], "thesis_type", "Thesis")
    IN IF ~c1.ok THEN c1
       ELSE IF ~c2.ok THEN c2
       ELSE IF ~(a["thesis_type"].t = "str"
                 /\ a["thesis_type"].v \in {Chars("phd"), Chars("masters")})
       THEN Err("InvalidEntry", "ValueError", Chars("thesis_type"))
       ELSE Assign("Thesis", a, _init_base("Thesis", a),
                   <<"school", "thesis_type">>)

SoftwareInit(a) ==
    Assign("Software", a, _init_base("Software", a),
           <<"publisher", "version", "license">>)

MiscInit(a) ==
    Assign("Misc", a, _init_base("Misc", a), <<>>)

\* cls(**kw)
New(cls, kw) ==
    LET Initialise(b) ==
            IF ~b.ok THEN b
            ELSE CASE cls = "Article" -> ArticleInit(b.val)
                   [] cls = "Book" -> BookInit(b.val)
                   [] cls = "InProceedings" -> InProceedingsInit(b.val)
                   [] cls = "TechReport" -> TechReportInit(b.val)
                   [] cls = "Thesis" -> ThesisInit(b.val)
                   [] cls = "Software" -> SoftwareInit(b.val)
                   [] cls = "Misc" -> MiscInit(b.val)
    IN Initialise(Bind(cls, kw))

Attr(e, name) == DictGet(e.attrs, name)

-----------------------------------------------------------------------------
(* Equality and hash *)

\* the excluded set without "app"
_EXCLUDED_key_only == {"key"}

_EXCLUDED == {"key", "app"}

\* every attribute name of the seven classes, in sorted() order
SortedNames ==
    <<"app", "article_number", "author", "booktitle", "doi", "edition",
      "editor", "institution", "journal", "key", "license", "note", "number",
      "pages", "publisher", "school", "thesis_type", "title", "url", "version",
      "volume", "year">>

RECURSIVE SelectItems(_, _, _)
SelectItems(names, d, exclude) ==
    IF Len(names) = 0 THEN <<>>
    ELSE LET k == names[1]
             rest == SelectItems(Tail(names), d, exclude)
         IN IF DictHas(d, k) /\ k \notin exclude
            THEN <<Item(k, DictGet(d, k))>> \o rest
            ELSE rest

\* the values of sorted(vars(obj).items()) but the excluded, lists as tuples
_content_fields(obj, exclude) ==
    LET items == SelectItems(SortedNames, obj.attrs, exclude)
    IN [i \in DOMAIN items |->
          IF items[i].v.t = "list" THEN PyTuple(items[i].v.v.items)
          ELSE items[i].v]

\* x == y of two values: values of different types are never equal
ValEq(x, y) == x.t = y.t /\ x.v = y.v

\* a == b of two tuples of values
TupleEq(a, b) ==
    /\ Len(a) = Len(b)
    /\ \A i \in DOMAIN a : ValEq(a[i], b[i])

\* __eq__ of two distinct objects: NotImplemented, or a bool
__eq__(self, other) ==
    IF self.cls # other.cls
    THEN [ni |-> TRUE, val |-> FALSE]
    ELSE [ni |-> FALSE,
          val |-> TupleEq(_content_fields(self, _EXCLUDED),
                          _content_fields(other, _EXCLUDED))]

\* a == b: with NotImplemented from both sides Python compares identities
Equal(a, b) ==
    LET Reflected(r, rr) ==
            IF ~r.ni THEN r.val
            ELSE IF ~rr.ni THEN rr.val
            ELSE FALSE
    IN Reflected(__eq__(a, b), __eq__(b, a))

\* what __hash__ hashes: hash() is a function of this pair
__hash__(self) == [name |-> Chars(self.cls), fields |-> _content_fields(self, _EXCLUDED)]

\* hash(a) == hash(b), hash() taken to have no collisions
SameHash(a, b) ==
    LET Same(h, g) == h.name = g.name /\ TupleEq(h.fields, g.fields)
    IN Same(__hash__(a), __hash__(b))

-----------------------------------------------------------------------------
(* to_dict and from_dict *)

\* to_dict leaving the key out of the dict
to_dict_without_key(self) ==
    <<Item("type", PyStr(Chars(self.cls)))>> \o DictDel(self.attrs, "key")

\* to_dict with a copy of each list, the copies being objects no entry holds
to_dict_copying(self) ==
    <<Item("type", PyStr(Chars(self.cls)))>>
    \o [i \in DOMAIN self.attrs |->
          IF self.attrs[i].v.t = "list"
          THEN Item(self.attrs[i].k, PyList(0, self.attrs[i].v.v.items))
          ELSE self.attrs[i]]

to_dict(self) == <<Item("type", PyStr(Chars(self.cls)))>> \o self.attrs

\* str(x) of a value
StrOf(x) ==
    CASE x.t = "str" -> x.v
      [] x.t = "int" -> IntToStr(x.v)
      [] OTHER -> Chars("<") \o Chars(x.t) \o Chars(">")

_ENTRY_TYPES == Range(Classes)

\* the pop done on the caller's dict itself
PopType_in_place(data) ==
    [type_name |-> IF DictHas(data, "type") THEN DictGet(data, "type") ELSE PyNone,
     copy |-> DictDel(data, "type"),
     data |-> DictDel(data, "type")]

\* data.pop("type", None) on the shallow copy: the value popped, the copy
\* after the pop, and the caller's dict, which the pop does not touch
PopType(data) ==
    LET copy == data
    IN [type_name |-> IF DictHas(copy, "type") THEN DictGet(copy, "type") ELSE PyNone,
        copy |-> DictDel(copy, "type"),
        data |-> data]

\* [ret: the entry or the exception, data: the caller's dict after the call]
from_dict(data) ==
    LET Made(p, found) ==
            [data |-> p.data,
             ret |-> IF IsNone(p.type_name)
                     THEN Err("MissingTypeDiscriminator", "ValueError", <<>>)
                     ELSE IF found = {}
                     THEN Err("UnknownType", "ValueError", StrOf(p.type_name))
                     ELSE New(CHOOSE c \in found : TRUE, p.copy)]
        Popped(p) == Made(p, {c \in _ENTRY_TYPES : Chars(c) = StrOf(p.type_name)})
    IN Popped(PopType(data))


-----------------------------------------------------------------------------
(* The JSON helpers.  JSON text is the sequence of its tokens. *)

Tok(t, v) == [t |-> t, v |-> v]
Punct(c) == Tok("punct", c)

RECURSIVE JsonStrings(_)
JsonStrings(items) ==
    IF Len(items) = 0 THEN <<>>
    ELSE <<Tok("string", items[1])>>
         \o (IF Len(items) > 1 THEN <<Punct(",")>> ELSE <<>>)
         \o JsonStrings(Tail(items))

\* json.dumps of a value of a dict
JsonValue(x) ==
    CASE x.t = "none" -> <<Tok("null", <<>>)>>
      [] x.t = "int" -> <<Tok("number", x.v)>>
      [] x.t = "str" -> <<Tok("string", x.v)>>
      [] x.t = "list" -> <<Punct("[")>> \o JsonStrings(x.v.items) \o <<Punct("]")>>
      [] x.t = "tuple" -> <<Punct("[")>> \o JsonStrings(x.v) \o <<Punct("]")>>

RECURSIVE JsonMembers(_)
JsonMembers(d) ==
    IF Len(d) = 0 THEN <<>>
    ELSE <<Tok("string", Chars(d[1].k)), Punct(":")>> \o JsonValue(d[1].v)
         \o (IF Len(d) > 1 THEN <<Punct(",")>> ELSE <<>>)
         \o JsonMembers(Tail(d))

JsonObject(d) == <<Punct("{")>> \o JsonMembers(d) \o <<Punct("}")>>

\* json.dumps of a list of dicts
RECURSIVE JsonObjects(_)
JsonObjects(ds) ==
    IF Len(ds) = 0 THEN <<>>
    ELSE JsonObject(ds[1])
         \o (IF Len(ds) > 1 THEN <<Punct(",")>> ELSE <<>>)
         \o JsonObjects(Tail(ds))

json_dumps(ds) == <<Punct("[")>> \o JsonObjects(ds) \o <<Punct("]")>>

IsPunct(toks, p, c) == p <= Len(toks) /\ toks[p].t = "punct" /\ toks[p].v = c

\* the attribute and key names, to turn the text of a JSON key into a name
KeyNames == Range(SortedNames) \cup {"type"}

KeyOf(chars) ==
    IF \E n \in KeyNames : Chars(n) = chars
    THEN CHOOSE n \in KeyNames : Chars(n) = chars
    ELSE "?"

\* the strings of an array, from token p on: [items, p: the token after "]"]
RECURSIVE LoadStrings(_, _)
LoadStrings(toks, p) ==
    IF IsPunct(toks, p, "]") THEN [items |-> <<>>, p |-> p + 1]
    ELSE IF IsPunct(toks, p, ",") THEN LoadStrings(toks, p + 1)
    ELSE LET rest == LoadStrings(toks, p + 1)
         IN [items |-> <<toks[p].v>> \o rest.items, p |-> rest.p]

\* json.loads of one value at token p: an array becomes a new list
LoadValue(toks, p, free) ==
    CASE toks[p].t = "null" -> [val |-> PyNone, p |-> p + 1, free |-> free]
      [] toks[p].t = "number" -> [val |-> PyInt(toks[p].v), p |-> p + 1, free |-> free]
      [] toks[p].t = "string" -> [val |-> PyStr(toks[p].v), p |-> p + 1, free |-> free]
      [] toks[p].t = "punct" ->
            LET r == LoadStrings(toks, p + 1)
            IN [val |-> PyList(free, r.items), p |-> r.p, free |-> free + 1]

\* the members of an object, from token p on
RECURSIVE LoadMembers(_, _, _)
LoadMembers(toks, p, free) ==
    LET Joined(v, rest) ==
            [val |-> <<Item(KeyOf(toks[p].v), v.val)>> \o rest.val,
             p |-> rest.p, free |-> rest.free]
        After(v) == Joined(v, LoadMembers(toks, v.p, v.free))
    IN IF IsPunct(toks, p, "}") THEN [val |-> <<>>, p |-> p + 1, free |-> free]
       ELSE IF IsPunct(toks, p, ",") THEN LoadMembers(toks, p + 1, free)
       ELSE After(LoadValue(toks, p + 2, free))

\* the objects of the top array, from token p on
RECURSIVE LoadObjects(_, _, _)
LoadObjects(toks, p, free) ==
    LET After(d) == <<d.val>> \o LoadObjects(toks, d.p, d.free)
    IN IF IsPunct(toks, p, "]") THEN <<>>
       ELSE IF IsPunct(toks, p, ",") THEN LoadObjects(toks, p + 1, free)
       ELSE After(LoadMembers(toks, p + 1, free))

\* json.loads of the text json_dumps writes; `free`: the first unused list identity
json_loads(toks, free) == LoadObjects(toks, 2, free)

\* to_jsons writing the entries last first
to_jsons_reversed(citations) ==
    json_dumps([i \in DOMAIN citations |->
                   to_dict(citations[Len(citations) + 1 - i])])

to_jsons(citations) ==
    json_dumps([i \in DOMAIN citations |-> to_dict(citations[i])])

\* the list of the entries, or the first exception a from_dict raises
from_jsons(data, free) ==
    LET Result(rs, bad) ==
            IF bad = {} THEN Ok([i \in DOMAIN rs |-> rs[i].val])
            ELSE rs[CHOOSE i \in bad : \A j \in bad : i <= j]
        Made(rs) == Result(rs, {i \in DOMAIN rs : ~rs[i].ok})
        Loaded(ds) == Made([i \in DOMAIN ds |-> from_dict(ds[i]).ret])
    IN Loaded(json_loads(data, free))

-----------------------------------------------------------------------------
(* Rendering as BibTeX: __str__ *)

\* f"{name:<10}": name, padded with spaces to ten characters
Padded(name) ==
    IF Len(name) >= 10 THEN name
    ELSE name \o [i \in 1..(10 - Len(name)) |-> " "]

_format_bibtex_field(name, value) ==
    Chars("  ") \o Padded(Chars(name)) \o Chars("= {") \o value \o Chars("},")

_author_str(authors) == Join(authors, Chars(" and "))

\* the text __str__ writes for the field `name` of self
FieldText(self, name) ==
    LET x == Attr(self, name)
    IN IF x.t = "list" THEN _author_str(x.v.items) ELSE StrOf(x)

\* the entry type __str__ writes after the @
BibtexType(self) ==
    IF self.cls = "Thesis"
    THEN (IF Attr(self, "thesis_type") = PyStr(Chars("phd"))
          THEN "phdthesis" ELSE "mastersthesis")
    ELSE CASE self.cls = "Article" -> "article"
           [] self.cls = "Book" -> "book"
           [] self.cls = "InProceedings" -> "inproceedings"
           [] self.cls = "TechReport" -> "techreport"
           [] self.cls = "Software" -> "software"
           [] self.cls = "Misc" -> "misc"

\* the fields each __str__ always writes, in its order
StrAlways(cls) ==
    CASE cls = "Article" -> <<"author", "title", "journal", "year", "volume">>
      [] cls = "Book" -> <<"author", "title", "publisher", "year">>
      [] cls = "InProceedings" -> <<"author", "title", "booktitle", "year">>
      [] cls = "TechReport" -> <<"author", "title", "institution", "year">>
      [] cls = "Thesis" -> <<"author", "title", "school", "year">>
      [] cls = "Software" -> <<"author", "title", "year">>
      [] cls = "Misc" -> <<"author", "title", "year">>

\* the fields each __str__ writes when they are not None, in its order
StrIfSet(cls) ==
    CASE cls = "Article" -> <<"number", "pages", "article_number">>
      [] cls = "Book" -> <<"edition", "editor">>
      [] cls = "InProceedings" -> <<"pages", "publisher", "editor">>
      [] cls = "TechReport" -> <<"number">>
      [] cls = "Software" -> <<"publisher", "version", "license">>
      [] OTHER -> <<>>

\* the lines of the fields in `names` that are not None
LinesIfSet(self, names) ==
    LET set == SelectSeq(names, LAMBDA n : ~IsNone(Attr(self, n)))
    IN [i \in DOMAIN set |-> _format_bibtex_field(set[i], FieldText(self, set[i]))]

\* _append_common_bibtex that appends note, url, doi
_append_common_bibtex_reversed(self, lines) ==
    lines \o LinesIfSet(self, <<"note", "url", "doi">>)

_append_common_bibtex(self, lines) ==
    lines \o LinesIfSet(self, <<"doi", "url", "note">>)

__str__(self) ==
    LET always == StrAlways(self.cls)
        lines == <<Chars("@") \o Chars(BibtexType(self)) \o Chars("{")
                     \o StrOf(Attr(self, "key")) \o Chars(",")>>
                 \o [i \in DOMAIN always |->
                       _format_bibtex_field(always[i], FieldText(self, always[i]))]
                 \o LinesIfSet(self, StrIfSet(self.cls))
    IN Join(Append(_append_common_bibtex(self, lines), Chars("}")), Chars("\n"))

-----------------------------------------------------------------------------
(* The parser: citeable._parser *)

Min(S) == CHOOSE x \in S : \A y \in S : x <= y

\* _ENTRY_START_RE, @(\w+)\s*\{, tried at position p: the type and the end
EntryStartAt(s, p) ==
    LET Brace(w, b) ==
            [ok |-> /\ p < Len(s) /\ At(s, p) = "@"
                    /\ w > p + 1
                    /\ b < Len(s) /\ At(s, b) = "{",
             entry_type |-> PySlice(s, p + 1, w),
             end |-> b + 1]
        Word(w) == Brace(w, SkipSpace(s, w))
    IN Word(SkipWord(s, p + 1))

\* the while loop of _extract_entries: the position where it stops.  The
\* characters that are no braces leave depth as it is, so the loop is
\* followed from one brace to the next.
RECURSIVE BraceScan(_, _, _)
BraceScan(bibtex, pos, depth) ==
    LET Step(q) ==
            BraceScan(bibtex, q + 1,
                      IF At(bibtex, q) = "{" THEN depth + 1 ELSE depth - 1)
        Next_(braces) == IF braces = {} THEN Len(bibtex) ELSE Step(Min(braces))
    IN IF pos < Len(bibtex) /\ depth > 0
       THEN Next_({q \in pos..(Len(bibtex) - 1) : At(bibtex, q) \in {"{", "}"}})
       ELSE pos

\* one (entry_type, cite_key, fields_body) of _extract_entries
EntryOf(bibtex, m) ==
    LET Cut(body, comma_idx) ==
            IF comma_idx = -1
            THEN [entry_type |-> m.entry_type, cite_key |-> Strip(body),
                  fields_body |-> <<>>]
            ELSE [entry_type |-> m.entry_type,
                  cite_key |-> Strip(PySlice(body, 0, comma_idx)),
                  fields_body |-> PySlice(body, comma_idx + 1, Len(body))]
        Body(body) == Cut(body, Find(body, <<",">>, 0))
    IN Body(PySlice(bibtex, m.end, BraceScan(bibtex, m.end, 1) - 1))

\* finditer: the matches from position p on, each search resuming at the
\* end of the match before
RECURSIVE EntriesFrom(_, _)
EntriesFrom(bibtex, p) ==
    LET Match(m) == <<EntryOf(bibtex, m)>> \o EntriesFrom(bibtex, m.end)
        Leftmost(found) ==
            IF found = {} THEN <<>> ELSE Match(EntryStartAt(bibtex, Min(found)))
    IN Leftmost({q \in p..(Len(bibtex) - 1) :
                    At(bibtex, q) = "@" /\ EntryStartAt(bibtex, q).ok})

\* _extract_entries keeping the first match only
_extract_entries_first(bibtex) ==
    LET First(all) == IF Len(all) = 0 THEN <<>> ELSE <<all[1]>>
    IN First(EntriesFrom(bibtex, 0))

_extract_entries(bibtex) == EntriesFrom(bibtex, 0)

\* _normalise_author with the tokens left in the order written
_normalise_author_unturned(name) ==
    LET Turned(n, parts) ==
            IF Contains(n, <<",">>) THEN n
            ELSE IF Len(parts) <= 1 THEN n
            ELSE parts[1] \o Chars(", ") \o Join(Tail(parts), <<" ">>)
        Stripped(n) == Turned(n, SplitWs(n))
    IN Stripped(Strip(name))

_normalise_author(name) ==
    LET Turned(n, parts) ==
            IF Contains(n, <<",">>) THEN n
            ELSE IF Len(parts) <= 1 THEN n
            ELSE parts[Len(parts)] \o Chars(", ")
                 \o Join(SubSeq(parts, 1, Len(parts) - 1), <<" ">>)
        Stripped(n) == Turned(n, SplitWs(n))
    IN Stripped(Strip(name))

_parse_authors(raw) ==
    LET Each(names) == [i \in DOMAIN names |-> _normalise_author(names[i])]
    IN Each(Split(raw, Chars(" and ")))

\* _FIELD_START_RE, ^\s*(\w+)\s*=\s* with MULTILINE, tried at position p
FieldStartAt(s, p) ==
    LET Equals(a, w, e) ==
            [ok |-> /\ (p = 0 \/ At(s, p - 1) = "\n")
                    /\ w > a
                    /\ e < Len(s) /\ At(s, e) = "=",
             start |-> p,
             name |-> PySlice(s, a, w),
             end |-> SkipSpace(s, e + 1)]
        Word(a, w) == Equals(a, w, SkipSpace(s, w))
        Indent(a) == Word(a, SkipWord(s, a))
    IN Indent(SkipSpace(s, p))

\* finditer of _FIELD_START_RE from position p on
RECURSIVE FieldStartsFrom(_, _)
FieldStartsFrom(body, p) ==
    LET Match(m) == <<m>> \o FieldStartsFrom(body, m.end)
        Leftmost(found) ==
            IF found = {} THEN <<>> ELSE Match(FieldStartAt(body, Min(found)))
    IN Leftmost({q \in p..(Len(body) - 1) :
                    (q = 0 \/ At(body, q - 1) = "\n") /\ FieldStartAt(body, q).ok})

\* the index of the brace that closes the one at 0, or -1
RECURSIVE ClosingBrace(_, _, _)
ClosingBrace(raw, i, depth) ==
    IF i >= Len(raw) THEN -1
    ELSE IF At(raw, i) = "{" THEN ClosingBrace(raw, i + 1, depth + 1)
    ELSE IF At(raw, i) = "}"
         THEN (IF depth = 1 THEN i ELSE ClosingBrace(raw, i + 1, depth - 1))
    ELSE ClosingBrace(raw, i + 1, depth)

\* _extract_value taking the braced text from the brace on
_extract_value_from_brace(raw) ==
    LET Braced(r, i) == Ok(IF i # -1 THEN PySlice(r, 0, i) ELSE r)
        Value(r) ==
            IF StartsAt(r, <<"{">>, 0) THEN Braced(r, ClosingBrace(r, 0, 0))
            ELSE Ok(Strip(RStripComma(r)))
    IN Value(Strip(raw))

\* _extract_value that ends a braced value at the first closing brace
_extract_value_unnested(raw) ==
    LET Braced(r, i) == Ok(IF i # -1 THEN PySlice(r, 1, i) ELSE r)
        Quoted(r, end) ==
            IF end = -1 THEN Err("ValueError", "ValueError", r)
            ELSE Ok(PySlice(r, 1, end))
        Value(r) ==
            IF StartsAt(r, <<"{">>, 0) THEN Braced(r, Find(r, <<"}">>, 1))
            ELSE IF StartsAt(r, <<"\"">>, 0) THEN Quoted(r, Find(r, <<"\"">>, 1))
            ELSE Ok(Strip(RStripComma(r)))
    IN Value(Strip(raw))

_extract_value(raw) ==
    LET Braced(r, i) == Ok(IF i # -1 THEN PySlice(r, 1, i) ELSE r)
        Quoted(r, end) ==
            IF end = -1 THEN Err("ValueError", "ValueError", r)
            ELSE Ok(PySlice(r, 1, end))
        Value(r) ==
            IF StartsAt(r, <<"{">>, 0) THEN Braced(r, ClosingBrace(r, 0, 0))
            ELSE IF StartsAt(r, <<"\"">>, 0) THEN Quoted(r, Find(r, <<"\"">>, 1))
            ELSE Ok(Strip(RStripComma(r)))
    IN Value(Strip(raw))

\* the loop of _parse_fields, from the i-th match on; the keys of `fields`
\* are the lower-cased names, as text
RECURSIVE FieldsFrom(_, _, _, _)
FieldsFrom(body, matches, i, fields) ==
    LET Store(m, v) ==
            IF ~v.ok THEN v
            ELSE FieldsFrom(body, matches, i + 1, DictSet(fields, Lower(m.name), v.val))
        Value(m, val_end) == Store(m, _extract_value(PySlice(body, m.end, val_end)))
    IN IF i > Len(matches) THEN Ok(fields)
       ELSE Value(matches[i],
                  IF i + 1 <= Len(matches) THEN matches[i + 1].start ELSE Len(body))

_parse_fields(body) == FieldsFrom(body, FieldStartsFrom(body, 0), 1, <<>>)

\* the value a kwargs function stores for a field: the text, int(text), or
\* the list of names
Converted(text, conv, id) ==
    LET Number_(n) == IF n.ok THEN Ok(PyInt(n.val)) ELSE n
    IN CASE conv = "int" -> Number_(IntOf(text))
         [] conv = "names" -> Ok(PyList(id, _parse_authors(text)))
         [] OTHER -> Ok(PyStr(text))

\* the `if name in fields: kwargs[name] = ...` statements of a kwargs
\* function, in their order, from the i-th on
RECURSIVE Collect(_, _, _, _, _)
Collect(fields, specs, i, free, kwargs) ==
    LET Store(name, v) ==
            IF ~v.ok THEN v
            ELSE Collect(fields, specs, i + 1, free, DictSet(kwargs, name, v.val))
        Field(name, conv) ==
            IF ~DictHas(fields, Chars(name))
            THEN Collect(fields, specs, i + 1, free, kwargs)
            ELSE Store(name, Converted(DictGet(fields, Chars(name)), conv,
                                       ListId(name, free)))
    IN IF i > Len(specs) THEN Ok(kwargs) ELSE Field(specs[i][1], specs[i][2])

\* _common_kwargs that leaves the key out
_common_kwargs_unkeyed(fields, cite_key, free) ==
    Collect(fields,
            <<<<"author", "names">>, <<"title", "str">>, <<"year", "int">>,
              <<"doi", "str">>, <<"url", "str">>, <<"note", "str">>>>,
            1, free, <<>>)

_common_kwargs(fields, cite_key, free) ==
    Collect(fields,
            <<<<"author", "names">>, <<"title", "str">>, <<"year", "int">>,
              <<"doi", "str">>, <<"url", "str">>, <<"note", "str">>>>,
            1, free, <<Item("key", PyStr(cite_key))>>)

\* _article_kwargs that takes volume and number as text
_article_kwargs_text(fields, free) ==
    Collect(fields,
            <<<<"journal", "str">>, <<"volume", "str">>, <<"pages", "str">>,
              <<"article_number", "str">>, <<"number", "str">>>>,
            1, free, <<>>)

_article_kwargs(fields, free) ==
    Collect(fields,
            <<<<"journal", "str">>, <<"volume", "int">>, <<"pages", "str">>,
              <<"article_number", "str">>, <<"number", "int">>>>,
            1, free, <<>>)

_book_kwargs(fields, free) ==
    Collect(fields,
            <<<<"publisher", "str">>, <<"edition", "str">>, <<"editor", "names">>>>,
            1, free, <<>>)

_inproceedings_kwargs(fields, free) ==
    Collect(fields,
            <<<<"booktitle", "str">>, <<"pages", "str">>, <<"publisher", "str">>,
              <<"editor", "names">>>>,
            1, free, <<>>)

_techreport_kwargs(fields, free) ==
    Collect(fields, <<<<"institution", "str">>, <<"number", "str">>>>, 1, free, <<>>)

\* _thesis_kwargs that always says "phd"
_thesis_kwargs_phd(fields, entry_type, free) ==
    LET Typed(kw) == Ok(DictSet(kw.val, "thesis_type", PyStr(Chars("phd"))))
    IN Typed(Collect(fields, <<<<"school", "str">>>>, 1, free, <<>>))

_thesis_kwargs(fields, entry_type, free) ==
    LET Typed(kw) ==
            Ok(DictSet(kw.val, "thesis_type",
                       PyStr(IF entry_type = Chars("phdthesis") THEN Chars("phd")
                             ELSE Chars("masters"))))
    IN Typed(Collect(fields, <<<<"school", "str">>>>, 1, free, <<>>))

_software_kwargs(fields, free) ==
    Collect(fields,
            <<<<"publisher", "str">>, <<"version", "str">>, <<"license", "str">>>>,
            1, free, <<>>)

_TYPE_MAP ==
    <<Item(Chars("article"), "Article"),
      Item(Chars("book"), "Book"),
      Item(Chars("inproceedings"), "InProceedings"),
      Item(Chars("techreport"), "TechReport"),
      Item(Chars("phdthesis"), "Thesis"),
      Item(Chars("mastersthesis"), "Thesis"),
      Item(Chars("software"), "Software"),
      Item(Chars("misc"), "Misc")>>

\* _TYPE_KWARGS[cls](fields), for the classes _TYPE_KWARGS holds
_TYPE_KWARGS(cls, fields, free) ==
    CASE cls = "Article" -> _article_kwargs(fields, free)
      [] cls = "Book" -> _book_kwargs(fields, free)
      [] cls = "InProceedings" -> _inproceedings_kwargs(fields, free)
      [] cls = "TechReport" -> _techreport_kwargs(fields, free)
      [] cls = "Software" -> _software_kwargs(fields, free)
      [] OTHER -> Ok(<<>>)

\* from_bibtex_string(bibtex); `free` is the first unused list identity
\* from_bibtex_string that looks up the type of the first entry before it
\* counts the entries
from_bibtex_string_type_first(bibtex, free) ==
    LET Build(cls, kwargs, more) ==
            IF ~kwargs.ok THEN kwargs
            ELSE IF ~more.ok THEN more
            ELSE New(cls, DictUpdate(kwargs.val, more.val))
        Fill(cls, entry_type, cite_key, fields) ==
            IF ~fields.ok THEN fields
            ELSE Build(cls, _common_kwargs(fields.val, cite_key, free),
                       IF cls = "Thesis" THEN _thesis_kwargs(fields.val, entry_type, free)
                       ELSE _TYPE_KWARGS(cls, fields.val, free))
        Typed(entry, entry_type) ==
            IF ~DictHas(_TYPE_MAP, entry_type)
            THEN Err("UnsupportedEntryType", "ValueError", Chars("@") \o entry_type)
            ELSE Fill(DictGet(_TYPE_MAP, entry_type), entry_type, entry.cite_key,
                      _parse_fields(entry.fields_body))
        Found(found) ==
            IF Len(found) = 0 THEN Err("NoEntryFound", "ValueError", <<>>)
            ELSE IF ~DictHas(_TYPE_MAP, Lower(found[1].entry_type))
            THEN Typed(found[1], Lower(found[1].entry_type))
            ELSE IF Len(found) > 1 THEN Err("MultipleEntriesFound", "ValueError", <<>>)
            ELSE Typed(found[1], Lower(found[1].entry_type))
    IN Found(_extract_entries(bibtex))

from_bibtex_string(bibtex, free) ==
    LET Build(cls, kwargs, more) ==
            IF ~kwargs.ok THEN kwargs
            ELSE IF ~more.ok THEN more
            ELSE New(cls, DictUpdate(kwargs.val, more.val))
        Fill(cls, entry_type, cite_key, fields) ==
            IF ~fields.ok THEN fields
            ELSE Build(cls, _common_kwargs(fields.val, cite_key, free),
                       IF cls = "Thesis" THEN _thesis_kwargs(fields.val, entry_type, free)
                       ELSE _TYPE_KWARGS(cls, fields.val, free))
        Typed(entry, entry_type) ==
            IF ~DictHas(_TYPE_MAP, entry_type)
            THEN Err("UnsupportedEntryType", "ValueError", Chars("@") \o entry_type)
            ELSE Fill(DictGet(_TYPE_MAP, entry_type), entry_type, entry.cite_key,
                      _parse_fields(entry.fields_body))
        Found(found) ==
            IF Len(found) = 0 THEN Err("NoEntryFound", "ValueError", <<>>)
            ELSE IF Len(found) > 1 THEN Err("MultipleEntriesFound", "ValueError", <<>>)
            ELSE Typed(found[1], Lower(found[1].entry_type))
    IN Found(_extract_entries(bibtex))

-----------------------------------------------------------------------------
(* The caller's arguments *)

SampleText(name) ==
    CASE name = "title" -> Chars("On x")
      [] name = "journal" -> Chars("J")
      [] name = "pages" -> Chars("1--2")
      [] name = "article_number" -> Chars("e42")
      [] name = "publisher" -> Chars("P")
      [] name = "edition" -> Chars("3rd")
      [] name = "booktitle" -> Chars("Proc")
      [] name = "institution" -> Chars("Inst")
      [] name = "school" -> Chars("MIT")
      [] name = "version" -> Chars("1.0")
      [] name = "license" -> Chars("BSD")
      [] name = "doi" -> Chars("10.1/x")
      [] name = "url" -> Chars("u.org")
      [] name = "note" -> Chars("n")

\* the value the caller passes for `name`; `free` is the first unused list identity
SampleValue(cls, name, free) ==
    CASE name = "year" -> PyInt(2024)
      [] name = "volume" -> PyInt(10)
      [] name = "number" ->
            IF cls = "TechReport" THEN PyStr(Chars("TR-42")) ELSE PyInt(3)
      [] name = "editor" -> PyList(ListId(name, free), <<Chars("Ed, A")>>)
      [] OTHER -> PyStr(SampleText(name))

AuthorLists == {<<>>, <<Chars("Smith, J")>>}

ThesisTypes == {Chars("phd"), Chars("masters"), Chars("msc")}

Keys == {PyNone, PyStr(Chars("k1"))}
Apps == {PyNone, PyStr(Chars("app"))}

\* the optional fields of a class, but key and app
VariantOptional(cls) == SelectSeq(Optional(cls), LAMBDA n : n \notin {"key", "app"})

\* the optional fields the caller gives: none, one of them, or all
OptionalChoices(cls) ==
    {{}} \cup {{n} : n \in Range(VariantOptional(cls))}
         \cup {Range(VariantOptional(cls))}

\* the required fields of its own a class has
OwnRequired(cls) == SelectSeq(Required(cls), LAMBDA n : n \notin Range(CommonRequired))

\* the keyword arguments of one call: `empty` names a required text field
\* that is given as "", or is "-" for none
Kwargs(cls, author, ttype, opts, empty, key, app, free) ==
    LET names == Required(cls) \o SelectSeq(VariantOptional(cls), LAMBDA n : n \in opts)
        given == [i \in DOMAIN names |->
                    Item(names[i],
                         CASE names[i] = "author" -> PyList(free, author)
                           [] names[i] = "thesis_type" -> PyStr(ttype)
                           [] names[i] = empty -> PyStr(<<>>)
                           [] OTHER -> SampleValue(cls, names[i], free))]
    IN given
       \o (IF IsNone(key) THEN <<>> ELSE <<Item("key", key)>>)
       \o (IF IsNone(app) THEN <<>> ELSE <<Item("app", app)>>)

EmptyChoices(cls) ==
    {"-"} \cup {n \in Range(OwnRequired(cls)) : n \notin {"volume", "thesis_type"}}

-----------------------------------------------------------------------------
(* The state *)

MaxEntries == 2

NoCall == [op |-> "none", arg |-> <<>>, src |-> 0, ret |-> <<>>]

Call(op, arg, src, ret) == [op |-> op, arg |-> arg, src |-> src, ret |-> ret]

\* the list identities in use
RECURSIVE ListIds(_)
ListIds(es) ==
    IF Len(es) = 0 THEN {}
    ELSE {es[1].attrs[i].v.v.id : i \in {j \in DOMAIN es[1].attrs : es[1].attrs[j].v.t = "list"}}
         \cup ListIds(Tail(es))

Max(S) == IF S = {} THEN 0 ELSE CHOOSE x \in S : \A y \in S : y <= x

FreeId == Max(ListIds(entries)) + 1

Init ==
    /\ entries = <<>>
    /\ last = NoCall

\* the caller's first call constructs an entry; an exception ends the run
Construct(cls, kw) ==
    LET Result(r) ==
            /\ last' = Call("construct", [cls |-> cls, kw |-> kw], 0, r)
            /\ entries' = IF r.ok THEN Append(entries, r.val) ELSE entries
    IN Result(New(cls, kw))

ConstructAny ==
    /\ entries = <<>>
    /\ last.op = "none"
    /\ \E cls \in Range(Classes), author \in AuthorLists, key \in Keys, app \in Apps :
        \E opts \in OptionalChoices(cls), empty \in EmptyChoices(cls),
           ttype \in (IF cls = "Thesis" THEN ThesisTypes ELSE {Chars("phd")}) :
            /\ empty # "-" => opts = {}
            /\ Construct(cls, Kwargs(cls, author, ttype, opts, empty, key, app, FreeId))

\* The calls that only read the entries the caller holds (to_dict, ==, hash,
\* to_jsons) and the next construction are taken right after the construction
\* that made those entries: they leave the entries as they are, so taken later
\* they would return the same.
Fresh == last.op \in {"none", "construct"}

\* the arguments of another entry, made from those of an entry the caller holds
Changes == {"same", "key", "app", "keyapp", "title", "author", "doi", "class"}

OtherClass(cls) == IF cls = "Misc" THEN "Software" ELSE "Misc"

\* a list of its own for the new call, with the same items
Relist(v, free, name) ==
    IF v.t = "list" THEN PyList(ListId(name, free), v.v.items) ELSE v

Changed(e, change, free) ==
    LET own == [i \in DOMAIN e.attrs |->
                  Item(e.attrs[i].k, Relist(e.attrs[i].v, free, e.attrs[i].k))]
        common == SelectSeq(own, LAMBDA it :
                      it.k \in Range(CommonRequired) \cup Range(CommonOptional))
    IN CASE change = "same" -> own
         [] change = "key" -> DictSet(own, "key", PyStr(Chars("k2")))
         [] change = "app" -> DictSet(own, "app", PyStr(Chars("app2")))
         [] change = "keyapp" ->
               DictSet(DictSet(own, "key", PyStr(Chars("k2"))), "app", PyStr(Chars("app2")))
         [] change = "title" -> DictSet(own, "title", PyStr(Chars("Other")))
         [] change = "author" ->
               DictSet(own, "author",
                       PyList(free, Append(DictGet(own, "author").v.items, Chars("Li, X"))))
         [] change = "doi" ->
               DictSet(own, "doi",
                       IF IsNone(DictGet(own, "doi")) THEN PyStr(Chars("10.2/y")) ELSE PyNone)
         [] change = "class" -> common

\* the caller constructs one more entry, like the last one but for `change`
ConstructLike(change) ==
    /\ Fresh
    /\ Len(entries) \in 1..(MaxEntries - 1)
    /\ LET Like(e) ==
               Construct(IF change = "class" THEN OtherClass(e.cls) ELSE e.cls,
                         Changed(e, change, FreeId))
       IN Like(entries[Len(entries)])

\* d = entries[i].to_dict()
ToDict(i) ==
    /\ Fresh
    /\ i \in DOMAIN entries
    /\ last' = Call("to_dict", i, i, to_dict(entries[i]))
    /\ UNCHANGED entries

\* CitationBase.from_dict(d), d the dict to_dict has just returned
FromDict ==
    /\ last.op = "to_dict"
    /\ LET Result(r) ==
               last' = Call("from_dict", [before |-> last.ret, after |-> r.data],
                            last.src, r.ret)
       IN Result(from_dict(last.ret))
    /\ UNCHANGED entries

\* the dicts a caller writes by hand: the keys of a Misc or of an Article, a
\* "type" that is absent, None, right, or no class name, and one defect or none
TypeChoices ==
    {"absent", "none", "int", "Misc", "Article", "misc", "Nonexistent"}

Defects == {"-", "no title", "extra key", "no authors"}

CallerDict(cls, typ, defect) ==
    LET Defective(typed) ==
            CASE defect = "-" -> typed
              [] defect = "no title" -> DictDel(typed, "title")
              [] defect = "extra key" -> DictSet(typed, "colour", PyStr(Chars("red")))
              [] defect = "no authors" -> DictSet(typed, "author", PyList(1, <<>>))
        Typed(kw) ==
            Defective(CASE typ = "absent" -> kw
                        [] typ = "none" -> <<Item("type", PyNone)>> \o kw
                        [] typ = "int" -> <<Item("type", PyInt(7))>> \o kw
                        [] OTHER -> <<Item("type", PyStr(Chars(typ)))>> \o kw)
    IN Typed(Kwargs(cls, <<Chars("Smith, J")>>, Chars("phd"), {"pages"}, "-",
                    PyNone, PyNone, 1))

\* CitationBase.from_dict(d), d written by the caller
FromDictCaller(cls, typ, defect) ==
    /\ entries = <<>>
    /\ last.op = "none"
    /\ LET Result(d, r) ==
               last' = Call("from_dict", [before |-> d, after |-> r.data], 0, r.ret)
           Given_(d) == Result(d, from_dict(d))
       IN Given_(CallerDict(cls, typ, defect))
    /\ UNCHANGED entries

\* entries[i] == entries[j], and hash(entries[i]) == hash(entries[j])
Compare(i, j) ==
    /\ Fresh
    /\ i \in DOMAIN entries /\ j \in DOMAIN entries /\ i <= j
    /\ last' = Call("compare", <<i, j>>, 0,
                    [eq |-> i = j \/ Equal(entries[i], entries[j]),
                     same_hash |-> SameHash(entries[i], entries[j])])
    /\ UNCHANGED entries

\* text = to_jsons(entries)
ToJsons ==
    /\ Fresh
    /\ last' = Call("to_jsons", entries, 0, to_jsons(entries))
    /\ UNCHANGED entries

\* from_jsons(text), text what to_jsons has just returned
FromJsons ==
    /\ last.op = "to_jsons"
    /\ last' = Call("from_jsons", last.ret, 1, from_jsons(last.ret, FreeId))
    /\ UNCHANGED entries

Next ==
    \/ ConstructAny
    \/ ToJsons
    \/ FromJsons
    \/ \E change \in Changes : ConstructLike(change)
    \/ \E i \in 1..MaxEntries : ToDict(i)
    \/ FromDict
    \/ \E cls \in {"Misc", "Article"}, typ \in TypeChoices, defect \in Defects :
          FromDictCaller(cls, typ, defect)
    \/ \E i, j \in 1..MaxEntries : Compare(i, j)

Spec == Init /\ [][Next]_vars


-----------------------------------------------------------------------------
(* BibTeX text: the records a caller writes, and the second specification *)

\* a name as the caller writes it: its tokens, and the white space between them
Name(tokens, gap) == [tokens |-> tokens, gap |-> gap]

NameText(n) == Join([i \in DOMAIN n.tokens |-> Chars(n.tokens[i])], Chars(n.gap))

\* the values of a record: some text, a number, or a list of names
Text(s) == [t |-> "text", v |-> Chars(s)]
Number(n) == [t |-> "number", v |-> n]
Names(ns) == [t |-> "names", v |-> ns]

Smith == Name(<<"Smith,", "J">>, " ")

NameLists ==
    {<<Smith>>,
     <<Name(<<"John", "Smith">>, " "), Name(<<"Jane", "Doe">>, " ")>>,
     <<Name(<<"Plato">>, " "), Name(<<"Jane", "Smith">>, " ")>>,
     <<Name(<<"Jean", "Paul", "Sartre">>, "  "), Name(<<"Doe,", "Jane", "A">>, "  ")>>,
     <<Name(<<"Aristotle">>, " ")>>}

\* the entry types the caller writes after the @
TypeTokens ==
    {"article", "book", "inproceedings", "techreport", "phdthesis", "mastersthesis",
     "software", "misc", "Article", "PhdThesis", "MISC", "proceedings", "Manual",
     "thesis"}

\* the class a record of type `token` is for, "none" when there is none
VariantOf(token) ==
    CASE Lower(Chars(token)) = Chars("article") -> "Article"
      [] Lower(Chars(token)) = Chars("book") -> "Book"
      [] Lower(Chars(token)) = Chars("inproceedings") -> "InProceedings"
      [] Lower(Chars(token)) = Chars("techreport") -> "TechReport"
      [] Lower(Chars(token)) \in {Chars("phdthesis"), Chars("mastersthesis")} -> "Thesis"
      [] Lower(Chars(token)) = Chars("software") -> "Software"
      [] Lower(Chars(token)) = Chars("misc") -> "Misc"
      [] OTHER -> "none"

\* the class whose fields the caller writes in a record of type `token`
FieldsClass(token) == IF VariantOf(token) = "none" THEN "Misc" ELSE VariantOf(token)

\* the fields the caller writes for a class: the required ones and, when
\* `full`, the optional ones
RecordFields(cls, names, full) ==
    <<Item("title", Text("On {X}, y")), Item("author", Names(names)),
      Item("year", Number(1936))>>
    \o (CASE cls = "Article" ->
               <<Item("journal", Text("J. Mod")), Item("volume", Number(12)),
                 Item("pages", Text("1--2"))>>
          [] cls = "Book" -> <<Item("publisher", Text("P"))>>
          [] cls = "InProceedings" -> <<Item("booktitle", Text("Proc"))>>
          [] cls = "TechReport" -> <<Item("institution", Text("Cambridge"))>>
          [] cls = "Thesis" -> <<Item("school", Text("MIT"))>>
          [] OTHER -> <<>>)
    \o (IF ~full THEN <<>>
        ELSE (CASE cls = "Article" ->
                     <<Item("number", Number(3)), Item("article_number", Text("e42"))>>
                [] cls = "Book" ->
                     <<Item("edition", Text("3rd")),
                       Item("editor", Names(<<Name(<<"Ann", "Ed">>, " ")>>))>>
                [] cls = "InProceedings" ->
                     <<Item("pages", Text("1--2")), Item("publisher", Text("P")),
                       Item("editor", Names(<<Name(<<"Ed,", "A">>, " ")>>))>>
                [] cls = "TechReport" -> <<Item("number", Text("TR-42"))>>
                [] cls = "Software" ->
                     <<Item("version", Text("1.0")), Item("license", Text("BSD")),
                       Item("publisher", Text("P"))>>
                [] OTHER -> <<>>)
             \o <<Item("doi", Text("10.1/x")), Item("note", Text("n = 1"))>>)

\* what the caller writes for a value
Written(x) ==
    CASE x.t = "text" -> x.v
      [] x.t = "number" -> IntToStr(x.v)
      [] x.t = "names" -> Join([i \in DOMAIN x.v |-> NameText(x.v[i])], Chars(" and "))

Layouts == {"lines", "one line"}

Record(token, key, fields, layout) ==
    [token |-> token, key |-> key, fields |-> fields, layout |-> layout]

\* the text of a record: all of it on one line, or, in every other layout, a
\* field per line
RecordText(rec) ==
    LET head == Chars("@") \o Chars(rec.token) \o Chars("{") \o Chars(rec.key)
        perline == [i \in DOMAIN rec.fields |->
                      Chars("    ") \o Chars(rec.fields[i].k) \o Chars(" = {")
                        \o Written(rec.fields[i].v) \o Chars("},")]
        inline == [i \in DOMAIN rec.fields |->
                      Chars(rec.fields[i].k) \o Chars("={")
                        \o Written(rec.fields[i].v) \o Chars("}")]
    IN IF rec.layout # "one line"
       THEN Join(<<head \o Chars(",")>> \o perline \o <<Chars("}")>>, Chars("\n"))
       ELSE Join(<<head>> \o inline, Chars(", ")) \o Chars("}")

\* the one-record example of the specification
Example(layout) ==
    Record("techreport", "Turing.1936",
           <<Item("author", Names(<<Name(<<"Turing,", "Alan">>, " ")>>)),
             Item("title", Text("On Computable Numbers")),
             Item("institution", Text("Cambridge")),
             Item("year", Number(1936)),
             Item("number", Text("TR-42"))>>,
           layout)

\* the records the caller writes
Records ==
    {Example(layout) : layout \in Layouts}
    \cup
    {Record(token, "Turing.1936", RecordFields(FieldsClass(token), <<Smith>>, full), layout) :
        token \in TypeTokens, full \in BOOLEAN, layout \in Layouts}
    \cup
    {Record(token, "k1", RecordFields(FieldsClass(token), names, token = "book"), "lines") :
        token \in {"misc", "book"}, names \in NameLists}

\* other texts the caller passes: with no record, with a record that is
\* not closed, with white space before the brace, with two records
RawTexts ==
    {<<>>,
     Chars("no entry here"),
     Chars("@misc"),
     Chars("@{k, title = {T}}"),
     Chars("misc{k,\n title = {T},\n}"),
     Chars("@misc {k,\n title = {T},\n author = {Li, X},\n year = {2020},\n}"),
     Chars("@Misc\n{k,\n title = {T},\n author = {Li, X},\n year = 2020"),
     Chars("% a comment\n@misc{k,\n title = {T},\n author = {Li, X},\n year = {2020},\n}\n"),
     Chars("@misc{a,\n title = {T},\n}\n@book{b,\n title = {U},\n}"),
     Chars("@misc{k,\n title = {see @b{c}},\n author = {Li, X},\n year = {2020},\n}"),
     Chars("@manual{a, title = {T}} @misc{b}"),
     Chars("mail x@y.org\n@misc{k,\n title = {T},\n author = {Li, X},\n year = {2020},\n}"),
     Chars("@misc{a}@misc{b}@misc{c}")}

\* the fields of a small misc record, from the comma after its key on
LiFields == Chars(",\n title = {T},\n author = {Li, X},\n year = {2020},\n}")

\* records whose key is empty, has white space around and inside it, is in
\* braces or is the key that would be generated, and a record of a key alone
KeyTexts ==
    {Chars("@misc{") \o Chars(k) \o LiFields : k \in {"", "  my key \n", "{k}", "Li.2020"}}
    \cup {Chars("@misc{ lonely }")}

\* what the caller writes for year, volume and number, "-" for a field that
\* is not written
WrittenYears == {"2020", "20x0", ""}
WrittenVolumes == {"-", "7", "v7"}
WrittenNumbers == {"-", "-5", "1.5"}

\* the fields of a record of a class with these three written so
NumberFields(cls, year, volume, number) ==
    LET Numbered(fields) ==
            IF number = "-" THEN fields ELSE DictSet(fields, "number", Text(number))
        Volumed(fields) ==
            Numbered(IF volume = "-" THEN fields ELSE DictSet(fields, "volume", Text(volume)))
    IN Volumed(DictSet(RecordFields(cls, <<Smith>>, FALSE), "year", Text(year)))

\* records, a field per line, with year, volume and number written as
\* integers or not
NumberRecords ==
    {Record(token, "k", NumberFields(VariantOf(token), year, volume, number), "numbers") :
        token \in {"article", "book", "techreport", "misc", "phdthesis"},
        year \in WrittenYears, volume \in WrittenVolumes, number \in WrittenNumbers}

\* the fields a variant cannot be constructed without
RequiredNames ==
    {"author", "title", "year", "journal", "volume", "publisher", "booktitle",
     "institution", "school"}

\* records of every supported type, a field per line, that lack one of the
\* fields their variant requires
LackingRecords ==
    {Record(pair[1], "k", DictDel(RecordFields(VariantOf(pair[1]), <<Smith>>, FALSE), pair[2]),
            "lacking") :
        pair \in {p \in {"article", "book", "inproceedings", "techreport", "phdthesis",
                         "mastersthesis", "misc", "software"} \X RequiredNames :
                     DictHas(RecordFields(VariantOf(p[1]), <<Smith>>, FALSE), p[2])}}

\* the text after the = of a field, up to the next field: values in braces
\* with braces, commas, quotes and = inside and with text after the closing
\* brace, values in quotes, bare values with and without commas after
\* them, values that are not closed, each with and without white space
\* around it
RawValues ==
    {pre \o core \o post :
        pre \in {<<>>, Chars(" ")}, post \in {<<>>, Chars(",\n  ")},
        core \in
            {Chars("{") \o Chars(inner) \o Chars("}") \o Chars(tail) :
                inner \in {"cogent3", "{cogent3}: x", "a, b = \"c\"", "", "{a}{b}"},
                tail \in {"", ",", "}, x"}}
            \cup
            {Chars("\"") \o Chars(inner) \o Chars("\"") \o Chars(tail) :
                inner \in {"quoted", "a, {b = c", ""}, tail \in {"", ",", " \"x\""}}
            \cup
            {Chars(token) \o Chars(tail) :
                token \in {"2025", "jul", "a b", "a,b"}, tail \in {"", ",", " ,", ",,"}}
            \cup
            {Chars("{open"), Chars("\"open"), <<>>}}

\* fields no variant uses
UnusedFields ==
    <<Item("month", Text("jul")), Item("urldate", Text("2025-08-02")),
      Item("howpublished", Text("Zenodo"))>>

\* records of every supported type, a field per line, with fields their
\* variant does not use before and after the ones it uses
UnusedRecords ==
    {Record(token, "k",
            SubSeq(UnusedFields, 1, n)
              \o RecordFields(VariantOf(token), <<Smith>>, full)
              \o SubSeq(UnusedFields, n + 1, Len(UnusedFields)),
            "unused") :
        token \in {"article", "book", "inproceedings", "techreport", "phdthesis",
                   "mastersthesis", "misc", "software"},
        full \in BOOLEAN, n \in {0, 1}}

\* pieces of a fields text: fields in braces and bare, names in capitals and
\* repeated, a value in braces with a name = at the start of its second
\* line, a field without a value, a blank line, a name = that is not at the
\* start of its line, two fields on one line, an = without a name
Segments ==
    {<<>>,
     Chars(" title = {T},\n"),
     Chars("Year=2020,\n"),
     Chars("  TITLE  =  {U\n x_1 = y},\n"),
     Chars(" note =\n"),
     Chars("\n"),
     Chars(" see a = b,\n"),
     Chars("month = jul, urldate = {2025}\n"),
     Chars(" = 3\n")}

\* the fields texts _parse_fields is called with
FieldBodies == {a \o b : a \in Segments, b \in Segments}

\* what can be wrong with a text, one defect for each check of
\* from_bibtex_string
AllDefects ==
    {"no marker", "two markers", "unsupported", "open quote", "bad year", "bad volume",
     "no pages", "no title"}

\* an article record, a field per line, with the defects D
DefectText(D) ==
    LET Line(defect, line) == IF defect \in D THEN <<>> ELSE <<Chars(line)>>
        Either(defect, bad, good) == <<Chars(IF defect \in D THEN bad ELSE good)>>
    IN Join(Either("no marker", "", "@") \o Either("unsupported", "manual", "article")
              \o <<Chars("{k,\n")>>
              \o <<Chars("  author = {Smith, J},\n")>>
              \o Line("no title", "  title = {T},\n")
              \o Either("bad year", "  year = {20x0},\n", "  year = {2020},\n")
              \o <<Chars("  journal = {J},\n")>>
              \o Either("bad volume", "  volume = {v7},\n", "  volume = {7},\n")
              \o Line("no pages", "  pages = {1--2},\n")
              \o Either("open quote", "  note = \"open,\n}", "  note = \"closed\",\n}")
              \o Either("two markers",
                        IF "no marker" \in D THEN "\nmisc{b}" ELSE "\n@misc{b}", ""),
            <<>>)

\* what the caller of from_bibtex_string is recorded to have written
DefectRecord(D) ==
    [token |-> IF "unsupported" \in D THEN "manual" ELSE "article", key |-> "k",
     fields |-> <<>>, layout |-> "defects", defects |-> D]

\* the texts the caller passes that are not made from a record
Texts == RawTexts \cup KeyTexts

NoRecord(layout) == Record("", "", <<>>, layout)

\* the first call constructs an entry whose authors are written one way or another
ConstructNamed ==
    /\ entries = <<>>
    /\ last.op = "none"
    /\ \E cls \in Range(Classes), names \in NameLists, key \in Keys :
        \E opts \in OptionalChoices(cls),
           ttype \in (IF cls = "Thesis" THEN {Chars("phd"), Chars("masters")}
                      ELSE {Chars("phd")}) :
            Construct(cls, Kwargs(cls, [i \in DOMAIN names |-> NameText(names[i])],
                                  ttype, opts, "-", key, PyNone, FreeId))

\* text = str(entries[i])
Str(i) ==
    /\ i \in DOMAIN entries
    /\ last.op = "construct"
    /\ last' = Call("str", i, i, __str__(entries[i]))
    /\ UNCHANGED entries

Parsed(text, rec, src) ==
    Call("from_bibtex_string", [text |-> text, rec |-> rec], src,
         from_bibtex_string(text, FreeId))

\* from_bibtex_string(text), text what str has just returned
ParseStr ==
    /\ last.op = "str"
    /\ last' = Parsed(last.ret, NoRecord("str"), last.src)
    /\ UNCHANGED entries

\* from_bibtex_string(text), text a record the caller wrote
ParseRecord(rec) ==
    /\ entries = <<>>
    /\ last.op = "none"
    /\ last' = Parsed(RecordText(rec), rec, 0)
    /\ UNCHANGED entries

\* from_bibtex_string(text), text any other text
ParseRaw(text) ==
    /\ entries = <<>>
    /\ last.op = "none"
    /\ last' = Parsed(text, NoRecord("raw"), 0)
    /\ UNCHANGED entries

\* _extract_value(raw), as _parse_fields calls it
ExtractValue(raw) ==
    /\ entries = <<>>
    /\ last.op = "none"
    /\ last' = Call("_extract_value", [raw |-> raw], 0, _extract_value(raw))
    /\ UNCHANGED entries

\* _parse_fields(body), as from_bibtex_string calls it
ParseFields(body) ==
    /\ entries = <<>>
    /\ last.op = "none"
    /\ last' = Call("_parse_fields", [body |-> body], 0, _parse_fields(body))
    /\ UNCHANGED entries

\* from_bibtex_string(text), text a record with several defects
ParseDefective(D) ==
    /\ entries = <<>>
    /\ last.op = "none"
    /\ last' = Parsed(DefectText(D), DefectRecord(D), 0)
    /\ UNCHANGED entries

NextBibtex ==
    \/ ConstructNamed
    \/ \E i \in 1..MaxEntries : Str(i)
    \/ ParseStr
    \/ \E rec \in Records \cup NumberRecords \cup LackingRecords \cup UnusedRecords :
          ParseRecord(rec)
    \/ \E text \in Texts : ParseRaw(text)
    \/ \E raw \in RawValues : ExtractValue(raw)
    \/ \E body \in FieldBodies : ParseFields(body)
    \/ \E D \in SUBSET AllDefects : ParseDefective(D)

SpecBibtex == Init /\ [][NextBibtex]_vars

-----------------------------------------------------------------------------
(* Key assignment over a batch: citeable._keys.assign_unique_keys, and the *)
(* third specification.                                                    *)

\* the letter appended for the n-th later entry with one base key: a, b, c, ...
Suffix(n) == <<Letters[n]>>

\* the key generate_key gives for the entry's author and year
BaseKey(e) == generate_key(Attr(e, "author"), Attr(e, "year"))

\* The entry holds the key generated from its author and year.  _init_base
\* stores the key alone, passed or generated, so this is all that can be
\* told of an entry (__repr__ tells it the same way).
HoldsBaseKey(e) == Attr(e, "key") = PyStr(BaseKey(e))

\* how many entries before the i-th hold the base key the i-th holds
Earlier(es, i) ==
    Cardinality({j \in 1..(i - 1) : HoldsBaseKey(es[j]) /\ BaseKey(es[j]) = BaseKey(es[i])})

\* entry.key = key
WithKey(e, key) == [e EXCEPT !.attrs = DictSet(e.attrs, "key", PyStr(key))]

\* the entries of the batch with their keys set: the first entry with a base
\* key keeps it, each later one gets the next letter
assign_unique_keys(es) ==
    [i \in DOMAIN es |->
        IF HoldsBaseKey(es[i]) /\ Earlier(es, i) > 0
        THEN WithKey(es[i], BaseKey(es[i]) \o Suffix(Earlier(es, i)))
        ELSE es[i]]

MaxBatch == 3

\* the authors and the keys of the entries of a batch: two ways to write one
\* surname and another surname; no key, the key that is generated for Smith
\* and the first key a collision on it gives
BatchAuthors == {<<Chars("Smith, J")>>, <<Chars("Jane Smith")>>, <<Chars("Jones, B")>>}
BatchKeys == {PyNone, PyStr(Chars("Smith.2024")), PyStr(Chars("Smith.2024a"))}

\* the caller constructs one more entry of the batch; last.arg lists the
\* keyword arguments of the constructions so far
ConstructInBatch(author, key) ==
    /\ last.op \in {"none", "construct_in_batch"}
    /\ Len(entries) < MaxBatch
    /\ LET Result(kw, r) ==
               /\ last' = Call("construct_in_batch", Append(last.arg, kw), 0, r)
               /\ entries' = IF r.ok THEN Append(entries, r.val) ELSE entries
           Given_(kw) == Result(kw, New("Misc", kw))
       IN Given_(Kwargs("Misc", author, Chars("phd"), {}, "-", key, PyNone, FreeId))

\* assign_unique_keys(entries)
AssignUniqueKeys ==
    /\ last.op = "construct_in_batch"
    /\ last' = Call("assign_unique_keys", [kws |-> last.arg, before |-> entries], 0,
                    PyNone)
    /\ entries' = assign_unique_keys(entries)

NextKeys ==
    \/ \E author \in BatchAuthors, key \in BatchKeys : ConstructInBatch(author, key)
    \/ AssignUniqueKeys

SpecKeys == Init /\ [][NextKeys]_vars

-----------------------------------------------------------------------------
(* summary, and the fourth specification: the calls that read entries, in *)
(* any order.                                                             *)

\* the horizontal ellipsis, "…", one character
Ellipsis == "u2026"

max_len == 50

_author_summary(authors) ==
    IF Len(authors) > 1 THEN extract_surname(authors[1]) \o Chars(" et al.")
    ELSE extract_surname(authors[1])

\* _title_excerpt that cuts a title of max_len characters too
_title_excerpt_strict(title) ==
    IF Len(title) < max_len THEN title
    ELSE PySlice(title, 0, max_len) \o <<Ellipsis>>

_title_excerpt(title) ==
    IF Len(title) <= max_len THEN title
    ELSE PySlice(title, 0, max_len) \o <<Ellipsis>>

\* CitationBase.summary: the tuple (app_name, citation)
summary(self) ==
    [app_name |-> IF ~IsNone(Attr(self, "app")) THEN Attr(self, "app").v ELSE <<>>,
     citation |-> _author_summary(Attr(self, "author").v.items) \o Chars(" ")
                  \o StrOf(Attr(self, "year")) \o Chars(" ")
                  \o _title_excerpt(Attr(self, "title").v)]

\* a title of n characters
Filler(n) == [i \in 1..n |-> IF i % 7 = 0 THEN " " ELSE "t"]

\* the titles, the authors and the classes of the entries that are read: a
\* short title, one of max_len characters and one of one more; one author
\* or two
LongTitles == {Chars("On x"), Filler(max_len), Filler(max_len + 1)}
ReadAuthors == {<<Chars("Smith, J")>>, <<Chars("John Smith"), Chars("Doe, J")>>}
ReadClasses == {"Misc", "Book"}

\* the fields each _repr_fields always lists, in its order
ReprAlways(cls) ==
    <<"author", "title", "year">>
    \o (CASE cls = "Article" -> <<"journal", "volume">>
          [] cls = "Book" -> <<"publisher">>
          [] cls = "InProceedings" -> <<"booktitle">>
          [] cls = "TechReport" -> <<"institution">>
          [] cls = "Thesis" -> <<"school", "thesis_type">>
          [] OTHER -> <<>>)

\* the fields each _repr_fields lists when they are not None, in its order
ReprIfSet(cls) ==
    (CASE cls = "Article" -> <<"pages", "article_number", "number">>
       [] cls = "Book" -> <<"edition", "editor">>
       [] cls = "InProceedings" -> <<"pages", "publisher", "editor">>
       [] cls = "TechReport" -> <<"number">>
       [] cls = "Software" -> <<"publisher", "version", "license">>
       [] OTHER -> <<>>)
    \o <<"doi", "url", "note">>

_repr_fields(self) ==
    ReprAlways(self.cls)
    \o SelectSeq(ReprIfSet(self.cls), LAMBDA name : ~IsNone(Attr(self, name)))

\* repr(value) of an int, of a str without quotes or escapes, of a list of such
PyRepr(x) ==
    CASE x.t = "int" -> IntToStr(x.v)
      [] x.t = "list" ->
            Chars("[")
            \o Join([i \in DOMAIN x.v.items |-> Chars("'") \o x.v.items[i] \o Chars("'")],
                    Chars(", "))
            \o Chars("]")
      [] OTHER -> Chars("'") \o x.v \o Chars("'")

\* CitationBase.__repr__: the key is listed, first, when it is not the
\* generated one
__repr__(self) ==
    LET Body(fields) ==
            Join([i \in DOMAIN fields |->
                     Chars("    ") \o Chars(fields[i]) \o Chars("=")
                     \o PyRepr(Attr(self, fields[i])) \o Chars(",")],
                 Chars("\n"))
    IN Chars(self.cls) \o Chars("(\n")
       \o Body(IF Attr(self, "key") # PyStr(generate_key(Attr(self, "author"),
                                                         Attr(self, "year")))
               THEN <<"key">> \o _repr_fields(self) ELSE _repr_fields(self))
       \o Chars("\n)")

\* the caller constructs one more entry
ConstructTitled(cls, author, title, app) ==
    /\ Len(entries) < MaxEntries
    /\ cls = "Book" => (title = Chars("On x") /\ app = PyNone)
    /\ app # PyNone => (title = Chars("On x") /\ Len(author) = 1)
    /\ Construct(cls, DictSet(Kwargs(cls, author, Chars("phd"), {"editor", "doi"}, "-",
                                     PyNone, app, FreeId),
                              "title", PyStr(title)))

\* a call that assigns to self.key
Reads_assigning(op, arg, src, ret) ==
    /\ last' = Call(op, arg, src, ret)
    /\ entries' = [i \in DOMAIN entries |-> WithKey(entries[i], Chars("k"))]

\* a call that assigns to no attribute of an entry: the only assignments to
\* self.<name> are those of the constructors
Reads(op, arg, src, ret) ==
    /\ last' = Call(op, arg, src, ret)
    /\ UNCHANGED entries

\* entries[i].summary()
Summary(i) ==
    /\ i \in DOMAIN entries
    /\ Reads("summary", i, i, summary(entries[i]))

\* str(entries[i])
Render(i) ==
    /\ i \in DOMAIN entries
    /\ Reads("str", i, i, __str__(entries[i]))

\* repr(entries[i])
Repr(i) ==
    /\ i \in DOMAIN entries
    /\ Reads("repr", i, i, __repr__(entries[i]))

\* entries[i] == entries[j] and hash(entries[i]) == hash(entries[j])
Equals(i, j) ==
    /\ i \in DOMAIN entries /\ j \in DOMAIN entries /\ i <= j
    /\ Reads("compare", <<i, j>>, 0,
             [eq |-> i = j \/ Equal(entries[i], entries[j]),
              same_hash |-> SameHash(entries[i], entries[j])])

\* entries[i].to_dict()
AsDict(i) ==
    /\ i \in DOMAIN entries
    /\ Reads("to_dict", i, i, to_dict(entries[i]))

\* CitationBase.from_dict(d), d the dict to_dict has just returned
OfDict ==
    /\ last.op = "to_dict"
    /\ LET Result(r) ==
               Reads("from_dict", [before |-> last.ret, after |-> r.data], last.src, r.ret)
       IN Result(from_dict(last.ret))

\* to_jsons(entries)
AsJsons == Reads("to_jsons", entries, 0, to_jsons(entries))

\* from_jsons(text), text what to_jsons has just returned
OfJsons ==
    /\ last.op = "to_jsons"
    /\ Reads("from_jsons", last.ret, 1, from_jsons(last.ret, FreeId))

\* write_json(citations=entries, path=...): the text written to the file
WriteJson == Reads("write_json", entries, 0, to_jsons(entries))

NextReads ==
    \/ \E cls \in ReadClasses, author \in ReadAuthors, title \in LongTitles, app \in Apps :
          ConstructTitled(cls, author, title, app)
    \/ \E i \in 1..MaxEntries : Summary(i)
    \/ \E i \in 1..MaxEntries : Render(i)
    \/ \E i \in 1..MaxEntries : Repr(i)
    \/ \E i, j \in 1..MaxEntries : Equals(i, j)
    \/ \E i \in 1..MaxEntries : AsDict(i)
    \/ OfDict
    \/ AsJsons
    \/ OfJsons
    \/ WriteJson

SpecReads == Init /\ [][NextReads]_vars

-----------------------------------------------------------------------------
(* The scan of the record body, one iteration of the loop at a time *)

\* the texts _extract_entries scans: bodies with nested braces, with text
\* after the closing brace, with closing braces too many, bodies that are
\* never closed, a text that ends with the opening brace, two markers
ScanTexts ==
    {Chars("@misc{k,\n title = {a{b}c},\n}"),
     Chars("@misc{k, t = {{x}{y}}, u = {}} tail } {"),
     Chars("@misc{}"),
     Chars("@misc{}}}"),
     Chars("@misc{"),
     Chars("@misc{k"),
     Chars("@misc{k, t = {T"),
     Chars("@misc{k, t = {T}"),
     Chars("@misc{{{{"),
     Chars("@a{x} @b{y{z}} @c{w"),
     Chars("see @misc {k, t = {a}{b}}{c}"),
     Chars("@book{Knuth.1997,\n  title = {The {A}rt},\n  year = 1997\n}\n"),
     Chars("@x{}@y{{}@z{}}")}

\* the positions after the opening braces of the markers of a text
Starts(bibtex) ==
    {EntryStartAt(bibtex, q).end :
        q \in {p \in 0..(Len(bibtex) - 1) : EntryStartAt(bibtex, p).ok}}

\* depth after the loop body has seen the character ch, keeping depth when
\* the character opens a brace
DepthAfter_flat(depth, ch) ==
    IF ch = "}" THEN depth - 1 ELSE depth

\* depth after the loop body has seen the character ch
DepthAfter(depth, ch) ==
    IF ch = "{" THEN depth + 1
    ELSE IF ch = "}" THEN depth - 1
    ELSE depth

\* start = m.end(); depth = 1; pos = start
ScanStart(bibtex, start) ==
    /\ last.op = "none"
    /\ last' = Call("scanning", [bibtex |-> bibtex, start |-> start], 0,
                    [pos |-> start, depth |-> 1, body |-> <<>>])
    /\ UNCHANGED entries

\* one iteration of the while loop: the condition holds, bibtex[pos] is
\* read, depth and pos are set
ScanStep ==
    /\ last.op = "scanning"
    /\ last.ret.pos < Len(last.arg.bibtex) /\ last.ret.depth > 0
    /\ last' = [last EXCEPT
                  !.ret.depth = DepthAfter(last.ret.depth, At(last.arg.bibtex, last.ret.pos)),
                  !.ret.pos = last.ret.pos + 1]
    /\ UNCHANGED entries

\* the condition of the loop fails: body = bibtex[start : pos - 1]
ScanExit ==
    /\ last.op = "scanning"
    /\ ~(last.ret.pos < Len(last.arg.bibtex) /\ last.ret.depth > 0)
    /\ last' = [last EXCEPT
                  !.op = "scanned",
                  !.ret.body = PySlice(last.arg.bibtex, last.arg.start, last.ret.pos - 1)]
    /\ UNCHANGED entries

NextScan ==
    \/ \E bibtex \in ScanTexts : \E start \in Starts(bibtex) : ScanStart(bibtex, start)
    \/ ScanStep
    \/ ScanExit

\* the loop, once entered, runs: nothing else is scheduled within the call
SpecScan == Init /\ [][NextScan]_vars /\ WF_vars(ScanStep) /\ WF_vars(ScanExit)

-----------------------------------------------------------------------------
(* Lists held by several holders, and the sixth specification *)

\* the object the dict display of to_dict evaluates to: 0, an object of its
\* own, and never i, the __dict__ of the i-th entry
ResultObject(i) == 0

\* the value v after list.append or another change in place has set the
\* items of the list object id
WithItems(v, id, items) ==
    IF v.t = "list" /\ v.v.id = id THEN PyList(id, items) ELSE v

\* the items of a dict or of the attributes of an entry after that change
Reheld(d, id, items) ==
    [i \in DOMAIN d |-> Item(d[i].k, WithItems(d[i].v, id, items))]

\* the caller constructs an entry from lists of its own
ConstructHeld(cls, author, opts) ==
    /\ last.op \in {"none", "construct"}
    /\ Len(entries) < MaxEntries
    /\ cls = "Misc" => opts = {}
    /\ Construct(cls, Kwargs(cls, author, Chars("phd"), opts, "-", PyNone, PyNone, FreeId))

\* the caller constructs an entry with the author list it passed for the
\* i-th entry
ConstructSharing(i) ==
    /\ last.op = "construct"
    /\ i \in DOMAIN entries
    /\ Len(entries) < MaxEntries
    /\ Construct("Misc",
                 DictSet(Kwargs("Misc", <<>>, Chars("phd"), {}, "-", PyNone, PyNone, FreeId),
                         "author", Attr(entries[i], "author")))

\* d = entries[i].to_dict()
ToDictHeld(i) ==
    /\ last.op = "construct"
    /\ i \in DOMAIN entries
    /\ last' = Call("to_dict", [self |-> i, obj |-> ResultObject(i)], i, to_dict(entries[i]))
    /\ UNCHANGED entries

DictChanges == {"d[title] = Z", "del d[doi]", "d[x] = 1", "d[author] = [A]", "del d[type]"}

\* the dict d after the caller has changed a key of it
DictChanged(d, change, free) ==
    CASE change = "d[title] = Z" -> DictSet(d, "title", PyStr(Chars("Z")))
      [] change = "del d[doi]" -> DictDel(d, "doi")
      [] change = "d[x] = 1" -> DictSet(d, "x", PyInt(1))
      [] change = "d[author] = [A]" -> DictSet(d, "author", PyList(free, <<Chars("A")>>))
      [] change = "del d[type]" -> DictDel(d, "type")

\* the caller adds, removes or replaces a key of the dict; a dict that were
\* the __dict__ of an entry would change the entry
DictChange(change) ==
    /\ last.op = "to_dict"
    /\ last' = Call("dict_change",
                    [self |-> last.arg.self, obj |-> last.arg.obj, change |-> change,
                     before |-> entries],
                    last.src, DictChanged(last.ret, change, FreeId))
    /\ entries' = IF last.arg.obj = 0 THEN entries
                  ELSE [entries EXCEPT ![last.arg.obj].attrs =
                           DictDel(DictChanged(last.ret, change, FreeId), "type")]

\* the caller appends a name to a list in place: the list entries[owner]
\* was given under `name`, reached through held, the dict of to_dict or the
\* keyword arguments of the constructor
ListAppend(owner, name, via, held) ==
    /\ DictHas(held, name)
    /\ DictGet(held, name).t = "list"
    /\ last' = Call("list_change",
                    [self |-> owner, name |-> name, via |-> via,
                     id |-> DictGet(held, name).v.id, before |-> entries],
                    owner, Append(DictGet(held, name).v.items, Chars("New, N")))
    /\ entries' = [i \in DOMAIN entries |->
                     [entries[i] EXCEPT !.attrs =
                         Reheld(entries[i].attrs, DictGet(held, name).v.id,
                                Append(DictGet(held, name).v.items, Chars("New, N")))]]

\* d[name].append(...)
AppendViaDict(name) ==
    /\ last.op = "to_dict"
    /\ ListAppend(last.arg.self, name, "dict", last.ret)

\* author.append(...) or editor.append(...) on the list passed to the
\* constructor
AppendViaArgument(name) ==
    /\ last.op = "construct"
    /\ last.ret.ok
    /\ ListAppend(Len(entries), name, "argument", last.arg.kw)

NextAlias ==
    \/ \E cls \in {"Misc", "Book"}, author \in ReadAuthors, opts \in SUBSET {"editor"} :
          ConstructHeld(cls, author, opts)
    \/ \E i \in 1..MaxEntries : ConstructSharing(i)
    \/ \E i \in 1..MaxEntries : ToDictHeld(i)
    \/ \E change \in DictChanges : DictChange(change)
    \/ \E name \in {"author", "editor"} : AppendViaDict(name)
    \/ \E name \in {"author", "editor"} : AppendViaArgument(name)

SpecAlias == Init /\ [][NextAlias]_vars

-----------------------------------------------------------------------------
(* Properties *)

\* the value of a field as == sees it: a list by its items
Content(x) == IF x.t = "list" THEN PyTuple(x.v.items) ELSE x

SameField(a, b, name) == ValEq(Content(Attr(a, name)), Content(Attr(b, name)))

\* same variant, same content, same key and same app
Restored(r, e) ==
    /\ r.cls = e.cls
    /\ Equal(r, e)
    /\ SameField(r, e, "key")
    /\ SameField(r, e, "app")

\* C1: from_dict(e.to_dict()) succeeds and returns an entry of e's variant
\* that is equal to e and has e's key and e's app.
DictRoundTrip ==
    (last.op = "from_dict" /\ last.src # 0) =>
        /\ last.ret.ok
        /\ Restored(last.ret.val, entries[last.src])

\* an Article with an explicit key and an app went through to_dict and from_dict
DictRoundTripWitness ==
    /\ last.op = "from_dict" /\ last.src # 0 /\ last.ret.ok
    /\ entries[last.src].cls = "Article"
    /\ Attr(entries[last.src], "key") = PyStr(Chars("k1"))
    /\ ~IsNone(Attr(entries[last.src], "app"))
    /\ ~IsNone(Attr(entries[last.src], "doi"))

\* C2: from_jsons(to_jsons(L)) has the length of L and holds, position by
\* position, an entry of the same variant, equal, with the same key and app.
JsonRoundTrip ==
    last.op = "from_jsons" =>
        /\ last.ret.ok
        /\ Len(last.ret.val) = Len(entries)
        /\ \A i \in DOMAIN entries : Restored(last.ret.val[i], entries[i])

\* a list of two entries of different variants went through the JSON text
JsonRoundTripWitness ==
    /\ last.op = "from_jsons" /\ last.ret.ok
    /\ Len(entries) = 2
    /\ entries[1].cls # entries[2].cls
    /\ Len(last.ret.val) = 2

\* every field but key and app is equal
SameContent(a, b) ==
    /\ DictKeys(a.attrs) = DictKeys(b.attrs)
    /\ \A name \in DictKeys(a.attrs) \ {"key", "app"} : SameField(a, b, name)

\* C3: two entries are equal iff they are of the same variant and every field
\* but key and app is equal; equal entries have the same hash.
ContentEquality ==
    last.op = "compare" =>
        LET a == entries[last.arg[1]]
            b == entries[last.arg[2]]
        IN /\ last.ret.eq <=> (a.cls = b.cls /\ SameContent(a, b))
           /\ last.ret.eq => last.ret.same_hash

\* two entries that differ in key and in app were compared, and are equal
ContentEqualityWitness ==
    /\ last.op = "compare" /\ last.arg = <<1, 2>>
    /\ last.ret.eq /\ last.ret.same_hash
    /\ ~SameField(entries[1], entries[2], "key")
    /\ ~SameField(entries[1], entries[2], "app")

Given(kw, name) == DictHas(kw, name) /\ ~IsNone(DictGet(kw, name))

Filled(kw, name) == Given(kw, name) /\ DictGet(kw, name) # PyStr(<<>>)

InvalidEntry(r) == ~r.ok /\ r.kind = "InvalidEntry" /\ r.exc = "ValueError"

\* C9: an Article with neither pages nor article_number, and a Thesis whose
\* thesis_type is neither "phd" nor "masters", fail with InvalidEntry whatever
\* the other arguments; an Article with one of the two and valid fields is
\* accepted.
ConstructionValidation ==
    last.op = "construct" =>
        LET cls == last.arg.cls
            kw == last.arg.kw
        IN /\ (cls = "Article" /\ ~Given(kw, "pages") /\ ~Given(kw, "article_number"))
                => InvalidEntry(last.ret)
           /\ (cls = "Thesis"
                 /\ DictGet(kw, "thesis_type") \notin {PyStr(Chars("phd")), PyStr(Chars("masters"))})
                => InvalidEntry(last.ret)
           /\ (cls = "Article" /\ (Given(kw, "pages") \/ Given(kw, "article_number"))
                 /\ Filled(kw, "journal") /\ Given(kw, "volume")
                 /\ Len(DictGet(kw, "author").v.items) > 0)
                => (last.ret.ok /\ last.ret.val.cls = "Article")

\* an Article was constructed with a key, an app and a doi but no pages
ConstructionValidationWitness ==
    /\ last.op = "construct" /\ last.arg.cls = "Article"
    /\ Given(last.arg.kw, "doi") /\ Given(last.arg.kw, "key")
    /\ ~Given(last.arg.kw, "pages") /\ ~Given(last.arg.kw, "article_number")
    /\ InvalidEntry(last.ret)
    /\ entries = <<>>

ClassNames == {Chars(Classes[i]) : i \in DOMAIN Classes}

\* the "type" of a dict: absent when the key is missing or holds None
TypeAbsent(d) == ~DictHas(d, "type") \/ IsNone(DictGet(d, "type"))

StrRoundTrip ==
    (last.op = "from_bibtex_string" /\ last.src # 0) =>
        /\ last.ret.ok
        /\ last.ret.val.cls = entries[last.src].cls
        /\ Equal(last.ret.val, entries[last.src])
        /\ SameField(last.ret.val, entries[last.src], "key")

\* a name in "Surname, Given" form: one with a comma as it is, one of two
\* tokens or more turned, one of a single token as it is
Normal(n) ==
    IF \E i \in DOMAIN n.tokens : Contains(Chars(n.tokens[i]), <<",">>)
    THEN NameText(n)
    ELSE IF Len(n.tokens) >= 2
    THEN Chars(n.tokens[Len(n.tokens)]) \o Chars(", ")
         \o Join([i \in 1..(Len(n.tokens) - 1) |-> Chars(n.tokens[i])], Chars(" "))
    ELSE NameText(n)

\* the value an entry holds for a value written in a record
Expected(x) ==
    CASE x.t = "text" -> PyStr(x.v)
      [] x.t = "number" -> PyInt(x.v)
      [] x.t = "names" -> PyTuple([i \in DOMAIN x.v |-> Normal(x.v[i])])

\* r is an entry of the record's variant with the key and the fields written
AsWritten(r, rec) ==
    /\ r.ok
    /\ r.val.cls = VariantOf(rec.token)
    /\ Attr(r.val, "key") = PyStr(Chars(rec.key))
    /\ \A i \in DOMAIN rec.fields :
          ValEq(Content(Attr(r.val, rec.fields[i].k)), Expected(rec.fields[i].v))
    /\ \A name \in DictKeys(r.val.attrs) \ (DictKeys(rec.fields) \cup {"key", "thesis_type"}) :
          IsNone(Attr(r.val, name))

WellFormed(rec) == rec.layout \in Layouts /\ VariantOf(rec.token) # "none"

\* C5 as stated: a well-formed record, its fields one per line or all on one
\* line, parses to an entry of the mapped variant holding the key and every
\* field as written.
ParsedAsWritten ==
    (last.op = "from_bibtex_string" /\ WellFormed(last.arg.rec)) =>
        AsWritten(last.ret, last.arg.rec)

\* C5: a well-formed record whose fields are one per line parses to an entry
\* of the mapped variant holding the key and every field as written; of a
\* record written on one line only the first field is read, and no entry is
\* returned.
ParsedAsWrittenPerLine ==
    (last.op = "from_bibtex_string" /\ WellFormed(last.arg.rec)) =>
        /\ last.arg.rec.layout = "lines" => AsWritten(last.ret, last.arg.rec)
        /\ last.arg.rec.layout = "one line" =>
              (~last.ret.ok /\ last.ret.kind = "TypeError")

\* the example record, a field per line, was parsed
ParsedAsWrittenWitness ==
    /\ last.op = "from_bibtex_string"
    /\ last.arg.rec = Example("lines")
    /\ last.ret.ok
    /\ Attr(last.ret.val, "institution") = PyStr(Chars("Cambridge"))
    /\ Attr(last.ret.val, "number") = PyStr(Chars("TR-42"))
    /\ Attr(last.ret.val, "key") = PyStr(Chars("Turing.1936"))

\* the positions of a text where an entry starts: an @, one word character or
\* more, white space or none, an opening brace
Markers(text) ==
    {p \in 0..(Len(text) - 1) :
        /\ At(text, p) = "@"
        /\ \E w \in (p + 2)..(Len(text) - 1), b \in (p + 2)..(Len(text) - 1) :
              /\ w <= b
              /\ \A q \in (p + 1)..(w - 1) : IsWord(At(text, q))
              /\ \A q \in w..(b - 1) : IsSpace(At(text, q))
              /\ At(text, b) = "{"}

\* C6: with no entry start marker in the text from_bibtex_string fails with
\* NoEntryFound, with more than one marker anywhere in it with
\* MultipleEntriesFound, and only with exactly one does it go on; in both
\* failures no entry is returned.
EntryMarkers ==
    last.op = "from_bibtex_string" =>
        LET n == Cardinality(Markers(last.arg.text))
        IN /\ n = 0 => (~last.ret.ok /\ last.ret.kind = "NoEntryFound")
           /\ n > 1 => (~last.ret.ok /\ last.ret.kind = "MultipleEntriesFound")
           /\ n = 1 => (last.ret.ok
                          \/ last.ret.kind \notin {"NoEntryFound", "MultipleEntriesFound"})
           /\ last.ret.ok => n = 1

\* a text whose second marker is inside a field of its one record was refused
EntryMarkersWitness ==
    /\ last.op = "from_bibtex_string"
    /\ Contains(last.arg.text, Chars("see @b{c}"))
    /\ Cardinality(Markers(last.arg.text)) = 2
    /\ ~last.ret.ok /\ last.ret.kind = "MultipleEntriesFound"

\* C7: the entry type, upper or lower case, maps to its variant, phdthesis and
\* mastersthesis to a Thesis of type "phd" and "masters"; any other type
\* fails with UnsupportedEntryType, which names it, and no entry is built.
TypeMapping ==
    (last.op = "from_bibtex_string" /\ last.arg.rec.layout \in Layouts) =>
        LET rec == last.arg.rec
            token == Lower(Chars(rec.token))
        IN /\ VariantOf(rec.token) # "none" =>
                /\ rec.layout = "lines" => last.ret.ok
                /\ ~last.ret.ok => last.ret.kind # "UnsupportedEntryType"
                /\ last.ret.ok =>
                      /\ last.ret.val.cls = VariantOf(rec.token)
                      /\ token = Chars("phdthesis") =>
                            Attr(last.ret.val, "thesis_type") = PyStr(Chars("phd"))
                      /\ token = Chars("mastersthesis") =>
                            Attr(last.ret.val, "thesis_type") = PyStr(Chars("masters"))
           /\ VariantOf(rec.token) = "none" =>
                /\ ~last.ret.ok
                /\ last.ret.kind = "UnsupportedEntryType"
                /\ Contains(last.ret.info, token)

\* a record of type mastersthesis was parsed to a Thesis
TypeMappingWitness ==
    /\ last.op = "from_bibtex_string"
    /\ last.arg.rec.token = "mastersthesis"
    /\ last.arg.rec.layout = "lines"
    /\ last.ret.ok /\ last.ret.val.cls = "Thesis"

\* C8: the names of an author or editor field, written with " and " between
\* them, are held in the order written, each in normal form.
AuthorNormalisation ==
    (last.op = "from_bibtex_string" /\ WellFormed(last.arg.rec)
       /\ last.arg.rec.layout = "lines") =>
        /\ last.ret.ok
        /\ \A i \in DOMAIN last.arg.rec.fields :
              LET f == last.arg.rec.fields[i]
              IN f.v.t = "names" =>
                   /\ Attr(last.ret.val, f.k).t = "list"
                   /\ Attr(last.ret.val, f.k).v.items
                        = [j \in DOMAIN f.v.v |-> Normal(f.v.v[j])]

\* "Plato and Jane Smith" was parsed to Plato and Smith, Jane
AuthorNormalisationWitness ==
    /\ last.op = "from_bibtex_string" /\ last.ret.ok
    /\ last.arg.rec.layout = "lines"
    /\ Contains(last.arg.text, Chars("{Plato and Jane Smith}"))
    /\ Attr(last.ret.val, "author").v.items = <<Chars("Plato"), Chars("Smith, Jane")>>

\* the i-th entry of the batch was constructed without a key
Unkeyed(kws, i) == ~DictHas(kws[i], "key")

\* how many entries before the i-th were constructed without a key and
\* generate the base key of the i-th
Rank(kws, es, i) ==
    Cardinality({j \in 1..(i - 1) : Unkeyed(kws, j) /\ BaseKey(es[j]) = BaseKey(es[i])})

Count(text, a, b, ch) == Cardinality({q \in a..b : At(text, q) = ch})

\* the position after the opening brace of the marker at p
Opening(text, p) == Min({q \in p..(Len(text) - 1) : At(text, q) = "{"}) + 1

\* the closing braces at or after o that close one brace more than was opened
\* from o on
Closings(text, o) ==
    {q \in o..(Len(text) - 1) :
        At(text, q) = "}" /\ Count(text, o, q, "}") = Count(text, o, q, "{") + 1}

\* the record body that starts at o: up to the brace that closes it, or,
\* when none does, the rest of the text without its last character
BodyAt(text, o) ==
    IF Closings(text, o) = {} THEN PySlice(text, o, Len(text) - 1)
    ELSE PySlice(text, o, Min(Closings(text, o)))

\* the commas of a text
Commas(body) == {q \in 0..(Len(body) - 1) : At(body, q) = ","}

\* the key written in a body: the text before its first comma, or all of it
WrittenKey(body) ==
    Strip(IF Commas(body) = {} THEN body ELSE PySlice(body, 0, Min(Commas(body))))

\* C13: an entry returned by from_bibtex_string holds as its key the trimmed
\* text between the opening brace and the first comma of the record body,
\* be it empty or not the key generate_key would give.
WrittenKeyKept ==
    (last.op = "from_bibtex_string" /\ last.ret.ok) =>
        \A p \in Markers(last.arg.text) :
            Attr(last.ret.val, "key") =
                PyStr(WrittenKey(BodyAt(last.arg.text, Opening(last.arg.text, p))))

\* a record with an empty key was parsed: the entry holds the empty key, not
\* the key generated for its author and year
WrittenKeyKeptWitness ==
    /\ last.op = "from_bibtex_string"
    /\ last.arg.text = Chars("@misc{") \o LiFields
    /\ last.ret.ok
    /\ Attr(last.ret.val, "key") = PyStr(<<>>)
    /\ BaseKey(last.ret.val) = Chars("Li.2020")

\* the name a field line starts with, and the line from its = on
LineName(line) == Strip(PySlice(line, 0, Find(line, <<"=">>, 0)))
LineValue(line) == PySlice(line, Find(line, <<"=">>, 0), Len(line))

\* a value as text: a list joined with " and ", an int in decimal, a str
Rendered(x) ==
    CASE x.t = "list" -> Join(x.v.items, Chars(" and "))
      [] x.t = "int" -> IntToStr(x.v)
      [] OTHER -> x.v

\* the type after the @: for a Thesis after its thesis_type, else the
\* lower-cased class name
HeaderType(e) ==
    IF e.cls = "Thesis"
    THEN (IF Attr(e, "thesis_type") = PyStr(Chars("phd"))
          THEN Chars("phdthesis") ELSE Chars("mastersthesis"))
    ELSE Lower(Chars(e.cls))

\* the fields of an entry in the order of its lines: the required ones, the
\* optional ones of the variant, then doi, url, note; of these the ones set
LineOrder(e) ==
    SelectSeq(StrAlways(e.cls) \o StrIfSet(e.cls) \o <<"doi", "url", "note">>,
              LAMBDA name : ~IsNone(Attr(e, name)))

\* text is the rendering of e: the header, a line for each field of
\* LineOrder(e), the closing line
RenderingOf(e, lines, names) ==
    /\ Len(lines) = Len(names) + 2
    /\ lines[1] = Chars("@") \o HeaderType(e) \o Chars("{") \o Attr(e, "key").v
                  \o Chars(",")
    /\ lines[Len(lines)] = Chars("}")
    /\ \A i \in DOMAIN names :
          /\ LineName(lines[i + 1]) = Chars(names[i])
          /\ LineValue(lines[i + 1]) =
                Chars("= {") \o Rendered(Attr(e, names[i])) \o Chars("},")

\* C14: str(entry) is the header line @type{key, with the type phdthesis or
\* mastersthesis for a Thesis and the lower-cased variant name otherwise, a
\* line for each required field (thesis_type is in the header), for each
\* optional field of the variant that is set, for doi, url and note when set,
\* in that order, and a closing line }; lists are joined with " and ".
StrLayout ==
    last.op = "str" =>
        /\ RenderingOf(entries[last.src], Split(last.ret, <<"\n">>),
                       LineOrder(entries[last.src]))
        /\ Range(StrAlways(entries[last.src].cls))
              = Range(Required(entries[last.src].cls)) \ {"thesis_type"}
        /\ Range(StrIfSet(entries[last.src].cls))
              = Range(VariantOptional(entries[last.src].cls)) \ {"doi", "url", "note"}

\* a book with every optional field and two authors was rendered
StrLayoutWitness ==
    /\ last.op = "str"
    /\ entries[last.src].cls = "Book"
    /\ Len(Attr(entries[last.src], "author").v.items) = 2
    /\ \A name \in {"edition", "editor", "doi", "url", "note"} :
          ~IsNone(Attr(entries[last.src], name))
    /\ Len(Split(last.ret, <<"\n">>)) = 11

\* C15: summary() returns the app, or "" when there is none, and the text
\* "<surname of the first author, with " et al." when there are more authors>
\* <year> <excerpt>", the excerpt being the title when it has at most max_len
\* characters and its first max_len characters and one ellipsis otherwise.
SummaryText ==
    last.op = "summary" =>
        /\ last.ret.app_name = (IF IsNone(Attr(entries[last.src], "app")) THEN <<>>
                                ELSE Attr(entries[last.src], "app").v)
        /\ last.ret.citation =
              Chars("Smith")
              \o (IF Len(Attr(entries[last.src], "author").v.items) > 1
                  THEN Chars(" et al.") ELSE <<>>)
              \o Chars(" 2024 ")
              \o (IF Len(Attr(entries[last.src], "title").v) <= max_len
                  THEN Attr(entries[last.src], "title").v
                  ELSE SubSeq(Attr(entries[last.src], "title").v, 1, max_len)
                       \o <<Ellipsis>>)

\* the summary of an entry with a title of exactly max_len characters and two
\* authors was taken: the title is whole and no ellipsis follows
SummaryTextWitness ==
    /\ last.op = "summary"
    /\ Len(Attr(entries[last.src], "title").v) = max_len
    /\ Len(Attr(entries[last.src], "author").v.items) = 2
    /\ Ellipsis \notin Range(last.ret.citation)
    /\ Len(last.ret.citation) = Len(Chars("Smith et al. 2024 ")) + max_len

\* a name in "Surname, Given" form where that form can be derived: it has a
\* comma, or it is a single token
SurnameFirst(name) == Contains(name, <<",">>) \/ Len(SplitWs(name)) <= 1

\* C16: every entry that exists has a non-empty author sequence in which
\* each name is in "Surname, Given" form wherever that form is derivable.
AuthorsSurnameFirst ==
    \A i \in DOMAIN entries :
        /\ Len(Attr(entries[i], "author").v.items) > 0
        /\ \A k \in DOMAIN Attr(entries[i], "author").v.items :
              SurnameFirst(Attr(entries[i], "author").v.items[k])

IntegerValue(text) ==
    CASE text = Chars("2020") -> PyInt(2020)
      [] text = Chars("7") -> PyInt(7)
      [] text = Chars("12") -> PyInt(12)
      [] text = Chars("-5") -> PyInt(0 - 5)
      [] OTHER -> PyNone

\* the fields among `names` that a record writes with a text that is no integer
NotIntegers(rec, names) ==
    {name \in names \cap DictKeys(rec.fields) :
        IntegerValue(Written(DictGet(rec.fields, name))) = PyNone}

\* r is an entry that holds the fields `names` written in rec as integers
HeldAsIntegers(r, rec, names) ==
    /\ r.ok
    /\ \A name \in names \cap DictKeys(rec.fields) :
          /\ DictHas(r.val.attrs, name)
          /\ Attr(r.val, name) = IntegerValue(Written(DictGet(rec.fields, name)))

NumericFailure(r) == ~r.ok /\ r.kind = "NumericFieldParseError" /\ r.exc = "ValueError"

\* C18 as stated: for every variant year, volume and number are converted to
\* integers, and a value of one of them that is no integer makes
\* from_bibtex_string fail with NumericFieldParseError.
NumericFieldsAllVariants ==
    (last.op = "from_bibtex_string" /\ last.arg.rec.layout = "numbers") =>
        IF NotIntegers(last.arg.rec, {"year", "volume", "number"}) # {}
        THEN NumericFailure(last.ret)
        ELSE HeldAsIntegers(last.ret, last.arg.rec, {"year", "volume", "number"})

\* the fields the parser converts to integers for a variant
Converted_(cls) == IF cls = "Article" THEN {"year", "volume", "number"} ELSE {"year"}

\* C18: year for every variant, and volume and number for an article, are
\* converted to integers, and a value of one of these that is no integer
\* makes from_bibtex_string fail with NumericFieldParseError; the number of a
\* techreport is kept as the text written, and volume and number written
\* for any other variant are not read.
NumericFieldsPerVariant ==
    (last.op = "from_bibtex_string" /\ last.arg.rec.layout = "numbers") =>
        IF NotIntegers(last.arg.rec, Converted_(VariantOf(last.arg.rec.token))) # {}
        THEN NumericFailure(last.ret)
        ELSE /\ HeldAsIntegers(last.ret, last.arg.rec,
                               Converted_(VariantOf(last.arg.rec.token)))
             /\ \A name \in {"volume", "number"} \ Converted_(VariantOf(last.arg.rec.token)) :
                   IF name = "number" /\ VariantOf(last.arg.rec.token) = "TechReport"
                   THEN DictHas(last.arg.rec.fields, name) =>
                           Attr(last.ret.val, name)
                              = PyStr(Written(DictGet(last.arg.rec.fields, name)))
                   ELSE ~DictHas(last.ret.val.attrs, name)

\* an article whose volume is written v7 was refused
NumericFieldsWitness ==
    /\ last.op = "from_bibtex_string" /\ last.arg.rec.layout = "numbers"
    /\ VariantOf(last.arg.rec.token) = "Article"
    /\ NotIntegers(last.arg.rec, {"year", "volume", "number"}) = {"volume"}
    /\ NumericFailure(last.ret)

\* C19: parsing a record of a supported type that lacks a field its variant
\* requires returns no entry and fails with the InvalidEntry error that
\* construction raises for a missing or empty required field.
LackingFieldInvalidEntry ==
    (last.op = "from_bibtex_string" /\ last.arg.rec.layout = "lacking") =>
        InvalidEntry(last.ret)

\* s has as many closing braces as opening ones, and no closing brace
\* before the brace it closes
Balanced(s) ==
    /\ Count(s, 0, Len(s) - 1, "{") = Count(s, 0, Len(s) - 1, "}")
    /\ \A j \in 0..Len(s) : Count(s, 0, j - 1, "{") >= Count(s, 0, j - 1, "}")

\* r is a bare token of n characters, then white space, then commas
BareToken(r, n) ==
    /\ n = 0 \/ ~IsSpace(At(r, n - 1))
    /\ \E m \in n..Len(r) :
          /\ \A q \in n..(m - 1) : IsSpace(At(r, q))
          /\ \A q \in m..(Len(r) - 1) : At(r, q) = ","
          /\ m = n => (n = 0 \/ At(r, n - 1) # ",")

\* what the claim gives for a trimmed raw value r, as a condition on the
\* result v
Decoded(r, v) ==
    IF StartsAt(r, <<"{">>, 0)
    THEN \A i \in 1..(Len(r) - 1) :
            (At(r, i) = "}" /\ Balanced(PySlice(r, 1, i))) => v = Ok(PySlice(r, 1, i))
    ELSE IF StartsAt(r, <<"\"">>, 0)
    THEN \A i \in 1..(Len(r) - 1) :
            (At(r, i) = "\"" /\ Count(r, 1, i - 1, "\"") = 0) => v = Ok(PySlice(r, 1, i))
    ELSE \A n \in 0..Len(r) : BareToken(r, n) => v = Ok(PySlice(r, 0, n))

\* C20: the value of a trimmed raw field value that starts with a brace is the
\* text strictly inside the outermost matching pair of braces, with nested
\* braces, commas, quotes and = kept and what follows the closing brace
\* ignored; of one that starts with a quote, the text between the first and
\* the next quote; of any other, the bare token without the commas and the
\* white space after it.
ValueDecoding ==
    last.op = "_extract_value" => Decoded(Strip(last.arg.raw), last.ret)

\* {{cogent3}: x} followed by a comma was decoded to {cogent3}: x
ValueDecodingWitness ==
    /\ last.op = "_extract_value"
    /\ Strip(last.arg.raw) = Chars("{{cogent3}: x},")
    /\ last.ret = Ok(Chars("{cogent3}: x"))

\* the position after the word at a, and the position of the = after it, if
\* the text has a word at a that is followed, white space apart, by =
NameEnd(body, a) == SkipWord(body, a)
EqualsAfter(body, a) == SkipSpace(body, NameEnd(body, a))

\* the positions of the names of the `name =` occurrences at the start of a
\* line of body: only white space lies between the start of a line and the name
NameStarts(body) ==
    {a \in 0..(Len(body) - 1) :
        /\ \E p \in 0..a :
              /\ p = 0 \/ At(body, p - 1) = "\n"
              /\ \A q \in p..(a - 1) : IsSpace(At(body, q))
        /\ NameEnd(body, a) > a
        /\ EqualsAfter(body, a) < Len(body)
        /\ At(body, EqualsAfter(body, a)) = "="}

\* the lower-cased name of the occurrence at a
NameOf(body, a) == Lower(PySlice(body, a, NameEnd(body, a)))

\* the raw value of the occurrence at a: from just after its = to just
\* before the next occurrence, or to the end of the text
RawValueOf(body, a) ==
    LET After(later) ==
            PySlice(body, EqualsAfter(body, a) + 1,
                    IF later = {} THEN Len(body) ELSE Min(later))
    IN After({b \in NameStarts(body) : b > a})

\* fields is the dict of the occurrences of body, each name with the
\* decoded value of its last occurrence
FieldsOf(body, fields) ==
    /\ DictKeys(fields) = {NameOf(body, a) : a \in NameStarts(body)}
    /\ \A a \in NameStarts(body) :
          (\A b \in NameStarts(body) : b > a => NameOf(body, b) # NameOf(body, a))
             => DictGet(fields, NameOf(body, a)) = _extract_value(RawValueOf(body, a)).val

\* rec without the fields no variant uses
Used(rec) ==
    [rec EXCEPT !.fields = SelectSeq(rec.fields, LAMBDA f : f.k \notin DictKeys(UnusedFields))]

\* C21: the fields of a record are exactly the `name =` occurrences at the
\* start of a line of the fields text, the raw value of each running from
\* just after its = to just before the next occurrence or to the end of
\* the text; names are lower-cased, the last occurrence of a name gives its
\* value, and fields the variant does not use are ignored without error.
FieldTokenization ==
    /\ last.op = "_parse_fields" =>
          (last.ret.ok /\ FieldsOf(last.arg.body, last.ret.val))
    /\ (last.op = "from_bibtex_string" /\ last.arg.rec.layout = "unused") =>
          AsWritten(last.ret, Used(last.arg.rec))

\* the kinds of failure the check that fails first on a text with the defects
\* D gives, {} when no check fails
FirstFailing(D) ==
    IF "no marker" \in D THEN {"NoEntryFound"}
    ELSE IF "two markers" \in D THEN {"MultipleEntriesFound"}
    ELSE IF "unsupported" \in D THEN {"UnsupportedEntryType"}
    ELSE IF "open quote" \in D THEN {"ValueError"}
    ELSE IF D \cap {"bad year", "bad volume"} # {} THEN {"NumericFieldParseError"}
    ELSE IF D \cap {"no title", "no pages"} # {} THEN {"TypeError", "InvalidEntry"}
    ELSE {}

\* C22: from_bibtex_string reports the first check that fails, in the order
\* no entry marker, more than one marker, unsupported type, decoding of the
\* fields and conversion to integers, construction of the variant; a text
\* that passes them all gives an entry.
FirstFailureReported ==
    (last.op = "from_bibtex_string" /\ last.arg.rec.layout = "defects") =>
        IF FirstFailing(last.arg.rec.defects) = {}
        THEN last.ret.ok
        ELSE ~last.ret.ok /\ last.ret.kind \in FirstFailing(last.arg.rec.defects)

\* a text with two markers, the first of an unsupported type, and a year
\* that is no integer failed with MultipleEntriesFound
FirstFailureWitness ==
    /\ last.op = "from_bibtex_string" /\ last.arg.rec.layout = "defects"
    /\ {"two markers", "unsupported", "bad year"} \subseteq last.arg.rec.defects
    /\ "no marker" \notin last.arg.rec.defects
    /\ ~last.ret.ok /\ last.ret.kind = "MultipleEntriesFound"

\* the positions of the brace that closes the brace before start
Closes(bibtex, start) ==
    {c \in start..(Len(bibtex) - 1) :
        At(bibtex, c) = "}" /\ Balanced(PySlice(bibtex, start, c))}

\* while the scan runs pos stays within the text, so that bibtex[pos] is
\* read inside it, and it is where the scan of the parser would be
ScanInText ==
    last.op \in {"scanning", "scanned"} =>
        /\ last.arg.start <= last.ret.pos /\ last.ret.pos <= Len(last.arg.bibtex)
        /\ last.ret.depth >= 0
        /\ last.op = "scanned" =>
              last.ret.pos = BraceScan(last.arg.bibtex, last.arg.start, 1)

\* the body of a scan that has ended: the text between the opening brace and
\* the brace that closes it, or, when none does, the rest of the text
\* without its last character
ScanBody ==
    last.op = "scanned" =>
        IF Closes(last.arg.bibtex, last.arg.start) # {}
        THEN \A c \in Closes(last.arg.bibtex, last.arg.start) :
                last.ret.body = PySlice(last.arg.bibtex, last.arg.start, c)
        ELSE last.ret.body
                = PySlice(last.arg.bibtex, last.arg.start, Len(last.arg.bibtex) - 1)

\* C23: the brace-depth scan of the record body ends on every input and
\* never reads past the end of the text; the body is the text strictly
\* between the opening brace and its matching close, or, when the brace is
\* never closed, the remaining text without its last character, and no
\* error is raised.
ScanEnds ==
    /\ [](ScanInText /\ ScanBody)
    /\ (last.op = "scanning") ~> (last.op = "scanned")

\* a scan of a body with nested braces has ended at the matching close, with
\* text after it
ScanEndsWitness ==
    /\ last.op = "scanned"
    /\ Closes(last.arg.bibtex, last.arg.start) # {}
    /\ last.ret.pos < Len(last.arg.bibtex)
    /\ Count(last.ret.body, 0, Len(last.ret.body) - 1, "{") >= 2

\* the entry e shows the change of a list: it is no longer equal to b, what
\* it was before, has another hash and another rendering
ShowsChange(b, e) == ~Equal(b, e) /\ ~SameHash(b, e) /\ __str__(e) # __str__(b)

\* C24: adding, removing or replacing a key of the dict to_dict returned
\* leaves every entry as it was; a change in place of a list of that dict
\* (author, editor), or of a list passed to the constructor, is a change of
\* the list the entry holds: the entry has the new items, and its equality,
\* its hash and its rendering change.
ListsShared ==
    /\ last.op = "dict_change" => entries = last.arg.before
    /\ last.op = "list_change" =>
          /\ Attr(entries[last.arg.self], last.arg.name) = PyList(last.arg.id, last.ret)
          /\ Attr(last.arg.before[last.arg.self], last.arg.name).v.items # last.ret
          /\ ShowsChange(last.arg.before[last.arg.self], entries[last.arg.self])

\* the editor list of the dict of a book was appended to, and the book is
\* not equal to what it was
ListsSharedWitness ==
    /\ last.op = "list_change"
    /\ last.arg.via = "dict" /\ last.arg.name = "editor"
    /\ Len(Attr(entries[last.arg.self], "editor").v.items)
          = Len(Attr(last.arg.before[last.arg.self], "editor").v.items) + 1
    /\ ~Equal(last.arg.before[last.arg.self], entries[last.arg.self])

=============================================================================
